---- MODULE Spec2Model ----
(***************************************************************************)
(* DevinationBot: the per-user session state machine of the message        *)
(* builder (compose flow) and of the attach-buttons flow, with the         *)
(* two-dimensional button grid both flows edit.                            *)
(*                                                                         *)
(* One inbound update is handled start to finish.  The session is loaded   *)
(* from the store when the handler first reads ctx.session and written     *)
(* back after the middleware chain returns; lazySession does not write     *)
(* back when a handler throws, so a handler that faults commits nothing.   *)
(***************************************************************************)
EXTENDS Integers, Sequences, FiniteSets, TLC

\* ------------------------------------------------------------------ bounds
\* largest row / column index carried by an inbound control token
MaxIdx == 1
\* number of inbound updates handled in one behaviour
MaxEvents == 2
\* number of further updates handled on a session already in use
MaxEdits == 1

\* texts a user types (message text, button label, URL or alert text)
Texts == {"A", "B"}
\* a message link a user pastes at the awaiting-link prompt
LinkTexts == {"https://t.me/mychannel/42"}
\* a link to a message of a private channel
PrivateLinkTexts == {"https://t.me/c/1234567890/7"}
\* chats the bot was added to (grp:CHATID tokens)
Groups == {-1001}
Photos == {"photo1"}

Idx == 0..MaxIdx

\* ------------------------------------------------------- JavaScript values
\* `undefined` for optional string fields
Undef == "undefined"
\* targetGroupId is a number; undefined is falsy like 0
NoTarget == 0
\* session.editingButton left undefined
NoEdit == [row |-> -1, col |-> -1, isNew |-> FALSE]
\* a hole of a sparse array of buttons (reads as undefined)
NoCell == [text |-> "<hole>", action |-> "<hole>", value |-> "<hole>"]
\* a hole of the sparse array of rows (reads as undefined)
NoRow == <<[text |-> "<norow>", action |-> "<norow>", value |-> "<norow>"]>>

Min(a, b) == IF a < b THEN a ELSE b

\* n holes in a row
RECURSIVE Holes(_, _)
Holes(n, h) == IF n <= 0 THEN <<>> ELSE <<h>> \o Holes(n - 1, h)

\* arr[i] (0-based); undefined past the end
At(arr, i, undef) == IF i < Len(arr) THEN arr[i + 1] ELSE undef

\* arr.splice(i, 0, x): a start past the end is clamped to the length
SpliceInsert(arr, i, x) ==
  LET k == Min(i, Len(arr))
  IN SubSeq(arr, 1, k) \o <<x>> \o SubSeq(arr, k + 1, Len(arr))

\* arr.splice(i, 1): nothing is removed when the start is past the end
SpliceDelete(arr, i) ==
  IF i < Len(arr)
  THEN SubSeq(arr, 1, i) \o SubSeq(arr, i + 2, Len(arr))
  ELSE arr

\* arr[i] = x: assigning past the end leaves holes before index i
AssignAt(arr, i, x, hole) ==
  IF i < Len(arr)
  THEN [arr EXCEPT ![i + 1] = x]
  ELSE arr \o Holes(i - Len(arr), hole) \o <<x>>

\* ----------------------------------------------------------------- session
\* createDefaultSession(): `step`, `message` and `attachFlow` are its own
\* properties; the optional fields of the nested records are left undefined
createDefaultSession ==
  [step |-> "idle",
   message |-> [text |-> "", imageFileId |-> Undef, imagePosition |-> Undef,
                buttons |-> <<>>],
   attachFlow |-> [step |-> "attach_idle", buttons |-> <<>>,
                   editingButton |-> NoEdit, pendingButtonText |-> Undef,
                   pendingButtonAction |-> Undef]]

\* session.attachFlow left undefined
NoAttach == [missing |-> TRUE]

\* lazySession's `initial`: a session record holding what createDefaultSession
\* returns, every other SessionData field undefined
FreshSession ==
  [step |-> createDefaultSession.step,
   message |-> createDefaultSession.message,
   attachFlow |-> createDefaultSession.attachFlow,
   editingButton |-> NoEdit,
   pendingButtonText |-> Undef,
   pendingButtonAction |-> Undef,
   targetGroupId |-> NoTarget]

\* a session stored before the attach flow existed: it has no attachFlow
LegacySession == [FreshSession EXCEPT !.attachFlow = NoAttach]

\* Object.assign(target, source): copies the own properties of source and
\* leaves every other property of target as it was
ObjectAssign(target, source) ==
  [f \in DOMAIN target |-> IF f \in DOMAIN source THEN source[f] ELSE target[f]]

\* { step: "attach_idle", buttons: [] } and the other attach literals
AttachLiteral(step) ==
  [step |-> step, buttons |-> <<>>, editingButton |-> NoEdit,
   pendingButtonText |-> Undef, pendingButtonAction |-> Undef]

\* ------------------------------------------------------ handling one update
\* what one handling has done so far: the session object in memory, the
\* answerCallbackQuery calls, the renders to the user's chat, the sends to
\* the target chat, the editMessageReplyMarkup calls, whether it threw, and
\* the redis.set calls of the outbound keyboard builder, the alert text the
\* answer carried, whether an answer came after a render or a delivery call
\* of the same handling, and the transport and store calls that rejected
Begin(s) ==
  [s |-> s, answers |-> 0, renders |-> <<>>, sends |-> <<>>, edits |-> <<>>,
   fault |-> FALSE, stores |-> <<>>, notice |-> Undef, late |-> FALSE,
   failed |-> 0]

answerCallbackQuery(h) ==
  [h EXCEPT !.answers = @ + 1,
            !.late = @ \/ h.renders # <<>> \/ h.sends # <<>> \/ h.edits # <<>>]

\* ctx.answerCallbackQuery({ text, show_alert: true })
answerWithAlert(h, text) == [answerCallbackQuery(h) EXCEPT !.notice = text]

Throw(h) == [h EXCEPT !.fault = TRUE]

\* an awaited transport or store call rejects
Rejected(h) == Throw([h EXCEPT !.failed = @ + 1])

\* buildPreviewText / buildButtonsPreview / buildPreview read row.map of every
\* row: a hole among the rows is a TypeError (map itself skips cell holes)
buildPreviewTextThrows(buttons) ==
  \E i \in 1..Len(buttons) : buttons[i] = NoRow

\* buttonGridKeyboard / attachButtonGridKeyboard read row.length of every
\* row and btn.action of every cell
buttonGridKeyboardThrows(buttons) ==
  \E i \in 1..Len(buttons) :
    \/ buttons[i] = NoRow
    \/ \E j \in 1..Len(buttons[i]) : buttons[i][j] = NoCell

\* stepText(session, step): the preview is built when the message has any
\* content; the instruction is named by its step
stepTextThrows(s) ==
  /\ (s.message.text # "" \/ s.message.imageFileId # Undef
        \/ Len(s.message.buttons) > 0)
  /\ buildPreviewTextThrows(s.message.buttons)

\* showStep: one sendMessage / sendPhoto to the user's chat; a transport
\* failure propagates out of the handler
showStep(h, e, msg, kb) ==
  IF h.fault THEN h
  ELSE IF ~e.tx THEN Rejected(h)
  ELSE [h EXCEPT !.renders = Append(@, [msg |-> msg, kb |-> kb])]

\* showStep(ctx, session, stepText(session, step), <fixed keyboard>)
showStepText(h, e, step, kb) ==
  IF stepTextThrows(h.s) THEN Throw(h) ELSE showStep(h, e, step, kb)

\* showStep(ctx, session, stepText(session, "edit_buttons"),
\*          buttonGridKeyboard(session.message.buttons))
showButtonGrid(h, e) ==
  IF stepTextThrows(h.s) \/ buttonGridKeyboardThrows(h.s.message.buttons)
  THEN Throw(h)
  ELSE showStep(h, e, "edit_buttons", "buttonGridKeyboard")

\* session.step = step
SetStep(h, step) == [h EXCEPT !.s.step = step]

\* ------------------------------------------------------------- button grid
\* buttons.splice(rowIdx, 0, [])
insertRow(buttons, rowIdx) == SpliceInsert(buttons, rowIdx, <<>>)

\* the isNew branch of the button value input:
\*   if (!buttons[row]) buttons[row] = [];  buttons[row].splice(col, 0, b)
insertCell(buttons, row, col, b) ==
  LET ensured == IF At(buttons, row, NoRow) = NoRow
                 THEN AssignAt(buttons, row, <<>>, NoRow)
                 ELSE buttons
  IN [ensured EXCEPT ![row + 1] = SpliceInsert(@, col, b)]

\* the update branch of the button value input:
\*   if (buttons[row]) buttons[row][col] = b
replaceCell(buttons, row, col, b) ==
  IF At(buttons, row, NoRow) # NoRow
  THEN [buttons EXCEPT ![row + 1] = AssignAt(@, col, b, NoCell)]
  ELSE buttons

\* a cell-delete that leaves an emptied row in the grid
deleteCellKeepingRow(buttons, rowIdx, colIdx) ==
  IF At(buttons, rowIdx, NoRow) # NoRow
  THEN [buttons EXCEPT ![rowIdx + 1] = SpliceDelete(@, colIdx)]
  ELSE buttons

\* btn_del: row.splice(col, 1); an emptied row is spliced out of the grid
deleteCell(buttons, rowIdx, colIdx) ==
  IF At(buttons, rowIdx, NoRow) # NoRow
  THEN LET row == SpliceDelete(buttons[rowIdx + 1], colIdx)
       IN IF Len(row) = 0
          THEN SpliceDelete(buttons, rowIdx)
          ELSE [buttons EXCEPT ![rowIdx + 1] = row]
  ELSE buttons

\* back_to_buttons: the row the cursor names is removed when it is empty
removeEmptyRow(buttons, editing) ==
  IF editing.isNew /\ At(buttons, editing.row, NoRow) = <<>>
  THEN SpliceDelete(buttons, editing.row)
  ELSE buttons

\* buttons[rowIdx]?.[colIdx] is a button
HasCell(buttons, rowIdx, colIdx) ==
  /\ At(buttons, rowIdx, NoRow) # NoRow
  /\ At(buttons[rowIdx + 1], colIdx, NoCell) # NoCell

\* ------------------------------------------------- compose flow: callbacks
create_message(s, e) ==
  LET h0 == answerCallbackQuery(Begin(s))
      h1 == SetStep([h0 EXCEPT !.s = ObjectAssign(s, createDefaultSession)],
                    "write_text")
  IN showStep(h1, e, "write_text", "cancelKeyboard")

img_yes(s, e) ==
  LET h1 == SetStep(answerCallbackQuery(Begin(s)), "send_image")
  IN showStepText(h1, e, "send_image", "backToImage")

img_no(s, e) ==
  LET h0 == answerCallbackQuery(Begin(s))
      h1 == SetStep([h0 EXCEPT !.s.message.imageFileId = Undef,
                               !.s.message.imagePosition = Undef],
                    "edit_buttons")
  IN showButtonGrid(h1, e)

img_replace(s, e) ==
  LET h1 == SetStep(answerCallbackQuery(Begin(s)), "send_image")
  IN showStepText(h1, e, "send_image", "backToImage")

img_remove(s, e) ==
  LET h0 == answerCallbackQuery(Begin(s))
      h1 == SetStep([h0 EXCEPT !.s.message.imageFileId = Undef,
                               !.s.message.imagePosition = Undef],
                    "add_image")
  IN showStepText(h1, e, "add_image", "addImageKeyboard")

img_done(s, e) ==
  LET h1 == SetStep(answerCallbackQuery(Begin(s)), "image_position")
  IN showStepText(h1, e, "image_position", "imagePositionKeyboard")

imgpos(s, e) ==
  LET h0 == answerCallbackQuery(Begin(s))
      h1 == SetStep([h0 EXCEPT !.s.message.imagePosition = e.text],
                    "edit_buttons")
  IN showButtonGrid(h1, e)

\* +r:R
add_row(s, e) ==
  LET h0 == answerCallbackQuery(Begin(s))
      h1 == SetStep(
              [h0 EXCEPT !.s.message.buttons = insertRow(@, e.r),
                         !.s.editingButton =
                            [row |-> e.r, col |-> 0, isNew |-> TRUE]],
              "btn_text")
  IN showStepText(h1, e, "btn_text", "backToButtons")

\* +c:R:C
add_col(s, e) ==
  LET h0 == answerCallbackQuery(Begin(s))
      h1 == SetStep(
              [h0 EXCEPT !.s.editingButton =
                            [row |-> e.r, col |-> e.c, isNew |-> TRUE]],
              "btn_text")
  IN showStepText(h1, e, "btn_text", "backToButtons")

\* eb:R:C
edit_button_menu(s, e) ==
  LET h0 == answerCallbackQuery(Begin(s))
  IN IF ~HasCell(s.message.buttons, e.r, e.c)
     THEN showButtonGrid(h0, e)
     ELSE showStep(h0, e, "button_info", "editButtonKeyboard")

\* btn_edit:R:C
btn_edit(s, e) ==
  LET h0 == answerCallbackQuery(Begin(s))
      h1 == SetStep(
              [h0 EXCEPT !.s.editingButton =
                            [row |-> e.r, col |-> e.c, isNew |-> FALSE]],
              "btn_text")
  IN showStepText(h1, e, "btn_text", "backToButtons")

\* btn_del:R:C
btn_del(s, e) ==
  LET h0 == answerCallbackQuery(Begin(s))
      h1 == SetStep(
              [h0 EXCEPT !.s.message.buttons = deleteCell(@, e.r, e.c)],
              "edit_buttons")
  IN showButtonGrid(h1, e)

\* a spacer that renders the grid again
noopShowingGrid(s, e) == showButtonGrid(answerCallbackQuery(Begin(s)), e)

noop(s, e) == answerCallbackQuery(Begin(s))

skip_buttons(s, e) ==
  LET h1 == SetStep(answerCallbackQuery(Begin(s)), "review")
  IN showStepText(h1, e, "review", "reviewKeyboard")

buttons_done(s, e) ==
  LET h1 == SetStep(answerCallbackQuery(Begin(s)), "review")
  IN showStepText(h1, e, "review", "reviewKeyboard")

\* btnact_url / btnact_alert: e.text is "url" or "alert"
btnact(s, e) ==
  LET h0 == answerCallbackQuery(Begin(s))
      h1 == [SetStep(h0, "btn_value") EXCEPT !.s.pendingButtonAction = e.text]
  IN showStep(h1, e, "enter_value", "backToBtnAction")

edit_text(s, e) ==
  LET h1 == SetStep(answerCallbackQuery(Begin(s)), "write_text")
  IN showStepText(h1, e, "write_text", "backToReviewDirect")

\* edit_image and back_to_image
edit_image(s, e) ==
  LET h1 == SetStep(answerCallbackQuery(Begin(s)), "add_image")
  IN IF s.message.imageFileId # Undef
     THEN showStepText(h1, e, "add_image", "imageAttachedKeyboard")
     ELSE showStepText(h1, e, "add_image", "addImageKeyboard")

edit_buttons_review(s, e) ==
  LET h1 == SetStep(answerCallbackQuery(Begin(s)), "edit_buttons")
  IN showButtonGrid(h1, e)

\* goto_select_group: e.groups is what getVerifiedGroupsForUser returns;
\* its redis.get rejects when the store does not answer (kv false)
goto_select_group(s, e) ==
  LET h1 == SetStep(answerCallbackQuery(Begin(s)), "select_group")
  IN IF ~e.kv THEN Rejected(h1)
     ELSE IF e.groups = {}
     THEN showStep(h1, e, "no_groups", "groupSelectionKeyboard")
     ELSE showStepText(h1, e, "select_group", "groupSelectionKeyboard")

refresh_groups(s, e) ==
  LET h0 == answerCallbackQuery(Begin(s))
  IN IF ~e.kv THEN Rejected(h0)
     ELSE IF e.groups = {}
     THEN showStep(h0, e, "no_groups", "groupSelectionKeyboard")
     ELSE showStepText(h0, e, "select_group", "groupSelectionKeyboard")

\* grp:CHATID
select_group(s, e) ==
  LET h0 == answerCallbackQuery(Begin(s))
      h1 == SetStep([h0 EXCEPT !.s.targetGroupId = e.chat], "confirm_send")
  IN IF ~e.kv THEN Rejected(h1)
     ELSE showStepText(h1, e, "confirm_send", "confirmSendKeyboard")

\* ------------------------------------------------------- outbound keyboard
\* Max bytes for Telegram callback_data
MAX_CALLBACK_DATA == 64
\* seconds an alert text stays in redis (30 days)
ALERT_TTL == 2592000

\* alert texts of 58 and 59 one-byte letters, and one of 30 Cyrillic letters
\* (two bytes each in UTF-8; written in Latin letters here)
Alert58 == "xxxxxxxxxxxxxxxxxxxxxxxxxxxxxxxxxxxxxxxxxxxxxxxxxxxxxxxxxx"
Alert59 == "yyyyyyyyyyyyyyyyyyyyyyyyyyyyyyyyyyyyyyyyyyyyyyyyyyyyyyyyyyy"
WideAlert == "ZhZhZhZhZhZhZhZhZhZhZhZhZhZhZh"
WideTexts == {WideAlert}
\* the first 8 characters of a random UUID
ShortIds == {"1a2b3c4d", "9f8e7d6c"}

\* Buffer.byteLength(t, "utf-8")
byteLength(t) == IF t \in WideTexts THEN 2 * Len(t) ELSE Len(t)

\* for (const row of buttons) for (const btn of row): the cells in the order
\* they are visited; a hole among the rows is visited as one undefined
RECURSIVE Cells(_)
Cells(buttons) ==
  IF buttons = <<>> THEN <<>> ELSE Head(buttons) \o Cells(Tail(buttons))

\* reading btn.action of an undefined cell, or iterating an undefined row
IsHole(btn) == btn = NoCell \/ btn = NoRow[1]

\* the cells visited before the builder throws, if it does
Visited(buttons) ==
  LET cells == Cells(buttons)
      holes == {k \in 1..Len(cells) : IsHole(cells[k])}
  IN IF holes = {} THEN cells
     ELSE SubSeq(cells, 1, (CHOOSE k \in holes : \A j \in holes : k <= j) - 1)

\* a builder that measures inlineData in characters (inlineData.length)
OverflowsInChars(btn) ==
  /\ btn.action # "url"
  /\ Len("alert:") + Len(btn.value) > MAX_CALLBACK_DATA

\* `alert:${btn.value}` does not fit callback_data
Overflows(btn) ==
  /\ btn.action # "url"
  /\ Len("alert:") + byteLength(btn.value) > MAX_CALLBACK_DATA

\* the k-th shortId drawn while one update is handled
shortId(e, k) == e.ids[((k - 1) % Len(e.ids)) + 1]

\* keyboard.url / keyboard.text for the k-th cell visited
outboundButton(e, cells, k) ==
  LET btn == cells[k]
      drawn == Len(SelectSeq(SubSeq(cells, 1, k), Overflows))
  IN IF btn.action = "url"
     THEN [text |-> btn.text, url |-> btn.value, callback_data |-> Undef]
     ELSE IF ~Overflows(btn)
     THEN [text |-> btn.text, url |-> Undef,
           callback_data |-> "alert:" \o btn.value]
     ELSE [text |-> btn.text, url |-> Undef,
           callback_data |-> "alrt:" \o shortId(e, drawn)]

\* a builder that never calls keyboard.row(): every button in one row
inlineKeyboardOneRow(e, buttons) ==
  LET cells == Cells(buttons)
  IN IF cells = <<>> THEN <<>>
     ELSE << [k \in 1..Len(cells) |-> outboundButton(e, cells, k)] >>

\* the InlineKeyboard returned for a grid without holes: one keyboard row
\* per grid row (keyboard.row() after each), one button per cell
inlineKeyboard(e, buttons) ==
  LET cells == Cells(buttons)
      start(i) == Len(Cells(SubSeq(buttons, 1, i - 1)))
  IN [i \in 1..Len(buttons) |->
        [j \in 1..Len(buttons[i]) |-> outboundButton(e, cells, start(i) + j)]]

\* buildInlineKeyboard as the handling sees it: one redis.set per alert text
\* that does not fit, in the order visited, and a TypeError at a hole; when
\* the store does not answer (kv false) the first redis.set rejects
buildInlineKeyboard(h, e, buttons) ==
  LET long == SelectSeq(Visited(buttons), Overflows)
      written == [k \in 1..Len(long) |->
                    [value |-> long[k].value, key |-> "alert:" \o shortId(e, k),
                     ex |-> ALERT_TTL]]
      h1 == [h EXCEPT !.stores = @ \o written]
  IN IF long # <<>> /\ ~e.kv THEN Rejected(h)
     ELSE IF Visited(buttons) = Cells(buttons) THEN h1 ELSE Throw(h1)


\* sendComposedMessage: refuses an empty message, builds the keyboard, then
\* makes one sendMessage or one sendPhoto call to the target chat, recorded
\* with its outcome (ok: e.api, the call succeeds); the text is the message
\* text or the photo's caption
sendComposedMessage(h, e, chatId, msg) ==
  LET built == buildInlineKeyboard(h, e, msg.buttons)
      called == [built EXCEPT !.sends = Append(@,
                   [text |-> msg.text,
                    chat |-> chatId,
                    call |-> IF msg.imageFileId = Undef THEN "sendMessage"
                             ELSE "sendPhoto",
                    photo |-> msg.imageFileId,
                    reply_markup |-> inlineKeyboard(e, msg.buttons),
                    ok |-> e.api])]
  IN IF msg.text = "" /\ msg.imageFileId = Undef THEN Throw(h)
     ELSE IF built.fault THEN built
     ELSE IF ~e.api THEN Rejected(called)
     ELSE called

\* the catch block of a try: the handler goes on after the throw
Caught(h) == [h EXCEPT !.fault = FALSE]

\* a confirm_send that does not look at the message before sending
confirm_sendUnchecked(s, e) ==
  LET h0 == answerCallbackQuery(Begin(s))
  IN IF s.targetGroupId = NoTarget
     THEN showStep(h0, e, "no_target", "reviewKeyboard")
     ELSE LET sent == sendComposedMessage(h0, e, s.targetGroupId, s.message)
              reset == [sent EXCEPT !.s = ObjectAssign(@, createDefaultSession)]
              shown == showStep(reset, e, "sent_ok", "startKeyboard")
          IN IF sent.fault
             THEN showStep(Caught(sent), e, "send_failed", "reviewKeyboard")
             ELSE IF shown.fault
             THEN showStep(Caught(shown), e, "send_failed", "reviewKeyboard")
             ELSE shown

\* a confirm_send that keeps the draft after the message was sent
confirm_sendKeepingDraft(s, e) ==
  LET h0 == answerCallbackQuery(Begin(s))
  IN IF s.targetGroupId = NoTarget
     THEN showStep(h0, e, "no_target", "reviewKeyboard")
     ELSE IF s.message.text = "" /\ s.message.imageFileId = Undef
     THEN showStep(h0, e, "empty_message", "reviewKeyboard")
     ELSE LET sent == sendComposedMessage(h0, e, s.targetGroupId, s.message)
          IN IF sent.fault
             THEN showStep(Caught(sent), e, "send_failed", "reviewKeyboard")
             ELSE showStep(sent, e, "sent_ok", "startKeyboard")

\* a confirm_send that starts over also when the send was rejected
confirm_sendResetting(s, e) ==
  LET h0 == answerCallbackQuery(Begin(s))
  IN IF s.targetGroupId = NoTarget
     THEN showStep(h0, e, "no_target", "reviewKeyboard")
     ELSE IF s.message.text = "" /\ s.message.imageFileId = Undef
     THEN showStep(h0, e, "empty_message", "reviewKeyboard")
     ELSE LET sent == sendComposedMessage(h0, e, s.targetGroupId, s.message)
              reset == [Caught(sent) EXCEPT
                          !.s = ObjectAssign(@, createDefaultSession)]
          IN IF sent.fault
             THEN showStep(reset, e, "send_failed", "reviewKeyboard")
             ELSE showStep(reset, e, "sent_ok", "startKeyboard")

confirm_send(s, e) ==
  LET h0 == answerCallbackQuery(Begin(s))
  IN IF s.targetGroupId = NoTarget
     THEN showStep(h0, e, "no_target", "reviewKeyboard")
     ELSE IF s.message.text = "" /\ s.message.imageFileId = Undef
     THEN showStep(h0, e, "empty_message", "reviewKeyboard")
     ELSE LET sent == sendComposedMessage(h0, e, s.targetGroupId, s.message)
              reset == [sent EXCEPT !.s = ObjectAssign(@, createDefaultSession)]
              shown == showStep(reset, e, "sent_ok", "startKeyboard")
          IN IF sent.fault
             THEN showStep(Caught(sent), e, "send_failed", "reviewKeyboard")
             ELSE IF shown.fault
             THEN showStep(Caught(shown), e, "send_failed", "reviewKeyboard")
             ELSE shown

back_to_text(s, e) ==
  LET h1 == SetStep(answerCallbackQuery(Begin(s)), "write_text")
  IN showStepText(h1, e, "write_text", "cancelKeyboard")

back_to_image(s, e) ==
  LET h1 == SetStep(answerCallbackQuery(Begin(s)), "add_image")
  IN IF s.message.imageFileId # Undef
     THEN showStepText(h1, e, "add_image", "imageAttachedKeyboard")
     ELSE showStepText(h1, e, "add_image", "addImageKeyboard")

back_to_image_or_pos(s, e) ==
  LET h0 == answerCallbackQuery(Begin(s))
  IN IF s.message.imageFileId # Undef
     THEN showStepText(SetStep(h0, "image_position"), e,
                       "image_position", "imagePositionKeyboard")
     ELSE showStepText(SetStep(h0, "add_image"), e,
                       "add_image", "addImageKeyboard")

back_to_buttons(s, e) ==
  LET h0 == answerCallbackQuery(Begin(s))
      h1 == SetStep(
              [h0 EXCEPT !.s.message.buttons = removeEmptyRow(@, s.editingButton),
                         !.s.editingButton = NoEdit,
                         !.s.pendingButtonText = Undef,
                         !.s.pendingButtonAction = Undef],
              "edit_buttons")
  IN showButtonGrid(h1, e)

back_to_btn_action(s, e) ==
  LET h1 == SetStep(answerCallbackQuery(Begin(s)), "btn_action")
  IN showStepText(h1, e, "btn_action", "buttonActionKeyboard")

back_to_review(s, e) ==
  LET h1 == SetStep(answerCallbackQuery(Begin(s)), "review")
  IN showStepText(h1, e, "review", "reviewKeyboard")

back_to_review_direct(s, e) ==
  LET h1 == SetStep(answerCallbackQuery(Begin(s)), "review")
  IN showStepText(h1, e, "review", "reviewKeyboard")

back_to_groups(s, e) ==
  LET h1 == SetStep(answerCallbackQuery(Begin(s)), "select_group")
  IN IF ~e.kv THEN Rejected(h1)
     ELSE showStepText(h1, e, "select_group", "groupSelectionKeyboard")

cancel(s, e) ==
  LET h0 == answerCallbackQuery(Begin(s))
      h1 == [h0 EXCEPT !.s = ObjectAssign(@, createDefaultSession)]
  IN showStep(h1, e, "cancelled", "startKeyboard")

\* the catch-all bot.on("callback_query:data")
unhandled_callback(s, e) == answerCallbackQuery(Begin(s))

\* /start in a private chat
handleStart(s, e) ==
  LET h0 == Begin(s)
      h1 == [h0 EXCEPT !.s = ObjectAssign(@, createDefaultSession)]
  IN showStep(h1, e, "welcome", "startKeyboard")

\* -------------------------------------------------- attach flow: callbacks
\* ensureAttachFlow(session)
ensureAttachFlow(s) ==
  IF s.attachFlow = NoAttach
  THEN [s EXCEPT !.attachFlow = AttachLiteral("attach_idle")]
  ELSE s

\* showStep(ctx, session, buildStepText(af), attachButtonGridKeyboard(af.buttons))
showAttachGrid(h, e) ==
  IF \/ buildPreviewTextThrows(h.s.attachFlow.buttons)
     \/ buttonGridKeyboardThrows(h.s.attachFlow.buttons)
  THEN Throw(h)
  ELSE showStep(h, e, "attach_edit_buttons", "attachButtonGridKeyboard")

attach_buttons_start(s, e) ==
  LET h0 == answerCallbackQuery(Begin(s))
      h1 == [h0 EXCEPT !.s.attachFlow = AttachLiteral("attach_edit_buttons")]
  IN showAttachGrid(h1, e)

\* ab_+r:R
ab_add_row(s, e) ==
  LET h0 == answerCallbackQuery(Begin(s))
      h1 == [h0 EXCEPT !.s = ensureAttachFlow(@)]
      h2 == [h1 EXCEPT !.s.attachFlow.buttons = insertRow(@, e.r),
                       !.s.attachFlow.editingButton =
                          [row |-> e.r, col |-> 0, isNew |-> TRUE],
                       !.s.attachFlow.step = "attach_edit_buttons",
                       !.s.attachFlow.pendingButtonText = Undef,
                       !.s.attachFlow.pendingButtonAction = Undef]
  IN showStep(h2, e, "button_text", "abBackToButtons")

\* ab_+c:R:C and ab_btn_edit:R:C (isNew false)
ab_set_cursor(s, e, isNew) ==
  LET h0 == answerCallbackQuery(Begin(s))
      h1 == [h0 EXCEPT !.s = ensureAttachFlow(@)]
      h2 == [h1 EXCEPT !.s.attachFlow.editingButton =
                          [row |-> e.r, col |-> e.c, isNew |-> isNew],
                       !.s.attachFlow.pendingButtonText = Undef,
                       !.s.attachFlow.pendingButtonAction = Undef]
  IN showStep(h2, e, "button_text", "abBackToButtons")

ab_add_col(s, e) == ab_set_cursor(s, e, TRUE)

ab_btn_edit(s, e) == ab_set_cursor(s, e, FALSE)

\* ab_eb:R:C
ab_edit_button_menu(s, e) ==
  LET h0 == answerCallbackQuery(Begin(s))
      h1 == [h0 EXCEPT !.s = ensureAttachFlow(@)]
  IN IF ~HasCell(h1.s.attachFlow.buttons, e.r, e.c)
     THEN showAttachGrid(h1, e)
     ELSE showStep(h1, e, "button_info", "attachEditButtonKeyboard")

\* ab_btn_del:R:C
ab_btn_del(s, e) ==
  LET h0 == answerCallbackQuery(Begin(s))
      h1 == [h0 EXCEPT !.s = ensureAttachFlow(@)]
      h2 == [h1 EXCEPT !.s.attachFlow.buttons = deleteCell(@, e.r, e.c)]
  IN showAttachGrid(h2, e)

ab_buttons_done(s, e) ==
  LET h1 == [Begin(s) EXCEPT !.s = ensureAttachFlow(@)]
  IN IF Len(h1.s.attachFlow.buttons) = 0
     THEN answerCallbackQuery(h1)
     ELSE LET h2 == answerCallbackQuery(h1)
              h3 == [h2 EXCEPT !.s.attachFlow.step = "attach_awaiting_url"]
          IN IF buildPreviewTextThrows(h3.s.attachFlow.buttons)
             THEN Throw(h3)
             ELSE showStep(h3, e, "send_link", "attachAwaitingUrlKeyboard")

\* ab_btnact_url / ab_btnact_alert: session.attachFlow is read unguarded
ab_btnact(s, e) ==
  LET h0 == answerCallbackQuery(Begin(s))
  IN IF s.attachFlow = NoAttach
     THEN Throw(h0)
     ELSE showStep([h0 EXCEPT !.s.attachFlow.pendingButtonAction = e.text],
                   e, "enter_value", "abBackToBtnAction")

ab_back_to_buttons(s, e) ==
  LET h0 == answerCallbackQuery(Begin(s))
      h1 == [h0 EXCEPT !.s = ensureAttachFlow(@)]
      h2 == [h1 EXCEPT !.s.attachFlow.buttons =
                          removeEmptyRow(@, h1.s.attachFlow.editingButton),
                       !.s.attachFlow.editingButton = NoEdit,
                       !.s.attachFlow.pendingButtonText = Undef,
                       !.s.attachFlow.pendingButtonAction = Undef,
                       !.s.attachFlow.step = "attach_edit_buttons"]
  IN showAttachGrid(h2, e)

ab_back_to_btn_action(s, e) ==
  showStep(answerCallbackQuery(Begin(s)), e, "choose_action",
           "attachButtonActionKeyboard")

\* an attach cancel that resets the step and the grid and keeps the staging
ab_cancelKeepingStaging(s, e) ==
  LET h0 == answerCallbackQuery(Begin(s))
      af == ensureAttachFlow(s).attachFlow
      h1 == [h0 EXCEPT !.s.attachFlow =
               [af EXCEPT !.step = "attach_idle", !.buttons = <<>>]]
  IN showStep(h1, e, "attach_cancelled", "startKeyboard")

ab_cancel(s, e) ==
  LET h0 == answerCallbackQuery(Begin(s))
      h1 == [h0 EXCEPT !.s.attachFlow = AttachLiteral("attach_idle")]
  IN showStep(h1, e, "attach_cancelled", "startKeyboard")

\* ------------------------------------------------------------ text / photo
\* pendingButtonText ?? "Кнопка" (the literal is written in Latin letters here)
DefaultButtonText == "Knopka"

\* ---------------------------------------------------------- message links
\* A string is read as the sequence of its characters; a JavaScript number
\* is written as the decimal digits of its exact value.
Letters ==
  { "a", "b", "c", "d", "e", "f", "g", "h", "i", "j", "k", "l", "m",
    "n", "o", "p", "q", "r", "s", "t", "u", "v", "w", "x", "y", "z",
    "A", "B", "C", "D", "E", "F", "G", "H", "I", "J", "K", "L", "M",
    "N", "O", "P", "Q", "R", "S", "T", "U", "V", "W", "X", "Y", "Z" }
Digits == {"0", "1", "2", "3", "4", "5", "6", "7", "8", "9"}
\* [a-zA-Z_] and [a-zA-Z0-9_]
HandleStart == Letters \cup {"_"}
WordChars == HandleStart \cup Digits
Whitespace == {" "}

DigitValue ==
  [c \in Digits |->
     CASE c = "0" -> 0 [] c = "1" -> 1 [] c = "2" -> 2 [] c = "3" -> 3
       [] c = "4" -> 4 [] c = "5" -> 5 [] c = "6" -> 6 [] c = "7" -> 7
       [] c = "8" -> 8 [] c = "9" -> 9]
DigitChar == <<"0", "1", "2", "3", "4", "5", "6", "7", "8", "9">>

\* the string made of the characters u
RECURSIVE Str(_)
Str(u) == IF u = <<>> THEN "" ELSE Head(u) \o Str(Tail(u))

\* url.trim()
RECURSIVE trim(_)
trim(u) ==
  IF u # <<>> /\ Head(u) \in Whitespace THEN trim(Tail(u))
  ELSE IF u # <<>> /\ u[Len(u)] \in Whitespace THEN trim(SubSeq(u, 1, Len(u) - 1))
  ELSE u

\* ----- natural numbers as decimal digits, most significant first
StripZeros(ds) ==
  LET nz == {k \in 1..Len(ds) : ds[k] # 0}
  IN IF nz = {} THEN <<0>>
     ELSE SubSeq(ds, CHOOSE k \in nz : \A j \in nz : k <= j, Len(ds))

\* a < b for digit sequences without leading zeros
Less(a, b) ==
  \/ Len(a) < Len(b)
  \/ /\ Len(a) = Len(b)
     /\ \E k \in 1..Len(a) :
          /\ a[k] < b[k]
          /\ \A j \in 1..(k - 1) : a[j] = b[j]

IsOdd(ds) == ds[Len(ds)] % 2 = 1

\* floor(ds / 2), by long division
RECURSIVE HalfFrom(_, _)
HalfFrom(ds, carry) ==
  IF ds = <<>> THEN <<>>
  ELSE LET v == 10 * carry + Head(ds)
       IN <<v \div 2>> \o HalfFrom(Tail(ds), v % 2)
Half(ds) == StripZeros(HalfFrom(ds, 0))

\* 2 * ds + carry, from the last digit up
RECURSIVE DoubleFrom(_, _)
DoubleFrom(ds, carry) ==
  IF ds = <<>> THEN (IF carry = 0 THEN <<>> ELSE <<carry>>)
  ELSE LET v == 2 * ds[Len(ds)] + carry
       IN DoubleFrom(SubSeq(ds, 1, Len(ds) - 1), v \div 10) \o <<v % 10>>
Double(ds) == StripZeros(DoubleFrom(ds, 0))

RECURSIVE Succ(_)
Succ(ds) ==
  IF ds = <<>> THEN <<1>>
  ELSE IF ds[Len(ds)] < 9
  THEN SubSeq(ds, 1, Len(ds) - 1) \o <<ds[Len(ds)] + 1>>
  ELSE Succ(SubSeq(ds, 1, Len(ds) - 1)) \o <<0>>

RECURSIVE Doubled(_, _)
Doubled(ds, k) == IF k = 0 THEN ds ELSE Doubled(Double(ds), k - 1)

\* 2^53: a Number holds every integer up to it exactly
TwoTo53 == <<9, 0, 0, 7, 1, 9, 9, 2, 5, 4, 7, 4, 0, 9, 9, 2>>

\* the Number nearest to the integer ds (ties to even): the integer is
\* halved until 53 bits are left, rounded on the bits shifted out, and
\* doubled back
RECURSIVE RoundTo53(_, _, _, _)
RoundTo53(m, k, half, sticky) ==
  IF Less(m, TwoTo53)
  THEN Doubled(IF half /\ (sticky \/ IsOdd(m)) THEN Succ(m) ELSE m, k)
  ELSE RoundTo53(Half(m), k + 1, IsOdd(m), sticky \/ half)
ToNumber(ds) == RoundTo53(StripZeros(ds), 0, FALSE, FALSE)

\* the digits a string of digit characters holds, and back
DigitsOf(u) == [k \in 1..Len(u) |-> DigitValue[u[k]]]
Written(ds) == Str([k \in 1..Len(ds) |-> DigitChar[ds[k] + 1]])

\* parseInt(str, 10) of an optional minus sign and digits
parseInt(u) ==
  LET neg == u # <<>> /\ Head(u) = "-"
      num == ToNumber(DigitsOf(IF neg THEN Tail(u) ELSE u))
  IN IF neg /\ num # <<0>> THEN "-" \o Written(num) ELSE Written(num)

\* ----- the two patterns
\* the literal p stands at position i of u
LiteralAt(u, i, p) ==
  i + Len(p) - 1 <= Len(u) /\ SubSeq(u, i, i + Len(p) - 1) = p

\* the length of the longest run of characters of a class from position i
RECURSIVE RunLength(_, _, _)
RunLength(u, i, class) ==
  IF i <= Len(u) /\ u[i] \in class THEN 1 + RunLength(u, i + 1, class) ELSE 0

TMe == <<"t", ".", "m", "e", "/">>
TMeC == <<"t", ".", "m", "e", "/", "c", "/">>

\* t\.me\/([a-zA-Z_][a-zA-Z0-9_]{4,})\/(\d+) matched with t.me/ at position
\* i: after the greedy run of word characters comes "/", so no shorter run
\* can match either
PublicAt(u, i) ==
  LET h == i + Len(TMe)
      w == RunLength(u, h, WordChars)
      d == RunLength(u, h + w + 1, Digits)
  IN /\ LiteralAt(u, i, TMe)
     /\ h <= Len(u) /\ u[h] \in HandleStart
     /\ w >= 5
     /\ LiteralAt(u, h + w, <<"/">>)
     /\ d >= 1

\* t\.me\/c\/(\d+)\/(\d+) matched with t.me/ at position i
PrivateAt(u, i) ==
  LET f == i + Len(TMeC)
      w == RunLength(u, f, Digits)
      d == RunLength(u, f + w + 1, Digits)
  IN /\ LiteralAt(u, i, TMeC)
     /\ w >= 1
     /\ LiteralAt(u, f + w, <<"/">>)
     /\ d >= 1

\* String.prototype.match without the g flag: the leftmost match (the
\* optional scheme group moves the start of the match, not the groups)
Leftmost(S) == CHOOSE i \in S : \A j \in S : i <= j

\* null
NoLink == [chatId |-> "null", messageId |-> "null"]
\* a TypeError thrown by the call
Thrown == [chatId |-> "TypeError", messageId |-> "TypeError"]

\* -(100 * 10^10 + rawId): the prefix put on by arithmetic, right only for
\* fragments of ten digits
privateChatIdArithmetic(rawId) ==
  parseInt(<<"-", "1", "0", "0">> \o Holes(10 - Len(rawId), "0") \o rawId)

\* parseInt(`-100${rawId}`, 10)
privateChatId(rawId) == parseInt(<<"-", "1", "0", "0">> \o rawId)

\* a parser that reads privateMatch[1] without testing privateMatch
parseMessageLinkUnguarded(url) ==
  LET trimmed == trim(url)
      pub == {i \in 1..Len(trimmed) : PublicAt(trimmed, i)}
      priv == {i \in 1..Len(trimmed) : PrivateAt(trimmed, i)}
  IN IF pub # {}
     THEN LET h == Leftmost(pub) + Len(TMe)
              w == RunLength(trimmed, h, WordChars)
              d == RunLength(trimmed, h + w + 1, Digits)
          IN [chatId |-> "@" \o Str(SubSeq(trimmed, h, h + w - 1)),
              messageId |-> parseInt(SubSeq(trimmed, h + w + 1, h + w + d))]
     ELSE IF priv # {}
     THEN LET f == Leftmost(priv) + Len(TMeC)
              w == RunLength(trimmed, f, Digits)
              d == RunLength(trimmed, f + w + 1, Digits)
          IN [chatId |-> privateChatId(SubSeq(trimmed, f, f + w - 1)),
              messageId |-> parseInt(SubSeq(trimmed, f + w + 1, f + w + d))]
     ELSE Thrown

parseMessageLink(url) ==
  LET trimmed == trim(url)
      pub == {i \in 1..Len(trimmed) : PublicAt(trimmed, i)}
      priv == {i \in 1..Len(trimmed) : PrivateAt(trimmed, i)}
  IN IF pub # {}
     THEN LET h == Leftmost(pub) + Len(TMe)
              w == RunLength(trimmed, h, WordChars)
              d == RunLength(trimmed, h + w + 1, Digits)
          IN [chatId |-> "@" \o Str(SubSeq(trimmed, h, h + w - 1)),
              messageId |-> parseInt(SubSeq(trimmed, h + w + 1, h + w + d))]
     ELSE IF priv # {}
     THEN LET f == Leftmost(priv) + Len(TMeC)
              w == RunLength(trimmed, f, Digits)
              d == RunLength(trimmed, f + w + 1, Digits)
              rawId == SubSeq(trimmed, f, f + w - 1)
          IN [chatId |-> privateChatId(rawId),
              messageId |-> parseInt(SubSeq(trimmed, f + w + 1, f + w + d))]
     ELSE NoLink

\* ----- the links the resolver is given
Schemes == { <<>>, <<"h", "t", "t", "p", "s", ":", "/", "/">>, <<"h", "t", "t", "p", ":", "/", "/">> }
\* t.me, a host that ends in t.me and another host
Hosts == { <<"t", ".", "m", "e">>,
           <<"n", "o", "t", "t", ".", "m", "e">>,
           <<"t", ".", "c", "o">> }
Handles ==
  { <<"m", "y", "c", "h", "a", "n", "n", "e", "l">>,
    <<"a", "b", "c", "d", "e">>,
    <<"a", "b", "c", "d">>,
    <<"_", "b", "c", "d", "1">>,
    <<"1", "b", "c", "d", "e">>,
    <<"a", "b", "-", "c", "d", "e">>,
    <<"c">> }
MessageIds ==
  { <<"4", "2">>,
    <<"0">>,
    <<"0", "0", "7">>,
    <<"5", "x">>,
    <<>>,
    <<"9", "0", "0", "7", "1", "9", "9", "2", "5", "4", "7", "4", "0", "9", "9", "3">> }
Fragments ==
  { <<"1", "2", "3", "4", "5", "6", "7", "8", "9", "0">>,
    <<"1">>,
    <<"0", "1", "2", "3">>,
    <<"1", "2", "3", "4", "5", "6", "7", "8", "9", "0", "1", "2", "3", "5">>,
    <<"1", "2", "a">>,
    <<>> }
\* what follows the message id: nothing, a further path segment, a blank
Trailers == { <<>>, <<"/", "7">>, <<" ">> }

PublicLink(scheme, host, handle, id, rest) ==
  scheme \o host \o <<"/">> \o handle \o <<"/">> \o id \o rest
PrivateLink(scheme, host, fragment, id, rest) ==
  scheme \o host \o <<"/", "c", "/">> \o fragment \o <<"/">> \o id \o rest

LinkInputs ==
  { PublicLink(sc, ho, ha, id, tr) :
      sc \in Schemes, ho \in Hosts, ha \in Handles, id \in MessageIds,
      tr \in Trailers }
  \cup
  { PrivateLink(sc, ho, fr, id, tr) :
      sc \in Schemes, ho \in Hosts, fr \in Fragments, id \in MessageIds,
      tr \in Trailers }

\* the links pasted at the awaiting-link prompt
PublicSample ==
  PublicLink(<<"h", "t", "t", "p", "s", ":", "/", "/">>, <<"t", ".", "m", "e">>,
             <<"m", "y", "c", "h", "a", "n", "n", "e", "l">>, <<"4", "2">>, <<>>)
PrivateSample ==
  PrivateLink(<<"h", "t", "t", "p", "s", ":", "/", "/">>, <<"t", ".", "m", "e">>,
              <<"1", "2", "3", "4", "5", "6", "7", "8", "9", "0">>,
              <<"7">>, <<>>)
LinkSamples == {PublicSample, PrivateSample}

\* ctx.message.text as characters: a pasted link is one of LinkSamples; the
\* other texts typed here hold no "t.me/" and are read as one character
Chars(t) ==
  IF \E u \in LinkSamples : Str(u) = t
  THEN CHOOSE u \in LinkSamples : Str(u) = t
  ELSE <<t>>

\* a catch block that gives the attach flow up
attachFailedReset(h, e) ==
  showStep([Caught(h) EXCEPT !.s.attachFlow = AttachLiteral("attach_idle")],
           e, "attach_failed", "startKeyboard")

\* a catch block that explains the failure over the main menu and leaves the
\* flow waiting for the link
attachFailedToMenu(h, e) ==
  showStep(Caught(h), e, "attach_failed", "startKeyboard")

\* the catch block of the link input: the failure is explained and the
\* awaiting-link controls are shown again
attachFailed(h, e) ==
  showStep(Caught(h), e, "attach_failed", "attachAwaitingUrlKeyboard")

\* the attach-flow message:text handler (second in the chain); an
\* editMessageReplyMarkup call is recorded with its outcome (ok)
attach_text(s, e) ==
  LET h0 == [Begin(s) EXCEPT !.s =
               IF s.attachFlow = NoAttach
               THEN [s EXCEPT !.attachFlow = AttachLiteral("attach_idle")]
               ELSE s]
      af == h0.s.attachFlow
      editing == af.editingButton
  IN IF af.step = "attach_idle" THEN h0
     ELSE IF editing # NoEdit /\ af.pendingButtonText = Undef
              /\ af.pendingButtonAction = Undef
     THEN showStep([h0 EXCEPT !.s.attachFlow.pendingButtonText = e.text],
                   e, "choose_action", "attachButtonActionKeyboard")
     ELSE IF editing # NoEdit /\ af.pendingButtonText # Undef
              /\ af.pendingButtonAction # Undef
     THEN LET newButton == [text |-> af.pendingButtonText,
                            action |-> af.pendingButtonAction,
                            value |-> e.text]
              h1 == [h0 EXCEPT
                       !.s.attachFlow.buttons =
                          IF editing.isNew
                          THEN insertCell(@, editing.row, editing.col, newButton)
                          ELSE replaceCell(@, editing.row, editing.col, newButton),
                       !.s.attachFlow.editingButton = NoEdit,
                       !.s.attachFlow.pendingButtonText = Undef,
                       !.s.attachFlow.pendingButtonAction = Undef]
          IN showAttachGrid(h1, e)
     ELSE IF af.step = "attach_awaiting_url"
     THEN LET parsed == parseMessageLink(Chars(e.text))
              built == buildInlineKeyboard(h0, e, af.buttons)
              called == [built EXCEPT !.edits = Append(@,
                           [reply_markup |-> inlineKeyboard(e, af.buttons),
                            ok |-> e.api,
                            chatId |-> parsed.chatId,
                            messageId |-> parsed.messageId])]
              edited == IF built.fault THEN built
                        ELSE IF ~e.api THEN Rejected(called)
                        ELSE called
              reset == [edited EXCEPT !.s.attachFlow = AttachLiteral("attach_idle")]
              shown == showStep(reset, e, "attached_ok", "startKeyboard")
          IN IF parsed = NoLink
             THEN showStep(h0, e, "invalid_link", "attachAwaitingUrlKeyboard")
             ELSE IF edited.fault THEN attachFailed(edited, e)
             ELSE IF shown.fault THEN attachFailed(shown, e)
             ELSE shown
     ELSE h0

\* the compose-flow message:text handler (first in the chain); a step that
\* takes no text passes the update on to the attach-flow handler
message_text(s, e) ==
  LET h0 == Begin(s)
      editing == s.editingButton
  IN CASE s.step = "write_text" ->
            LET h1 == SetStep([h0 EXCEPT !.s.message.text = e.text], "add_image")
            IN IF s.message.imageFileId # Undef
               THEN showStepText(h1, e, "add_image", "imageAttachedKeyboard")
               ELSE showStepText(h1, e, "add_image", "addImageKeyboard")
       [] s.step = "btn_text" ->
            LET h1 == SetStep([h0 EXCEPT !.s.pendingButtonText = e.text],
                              "btn_action")
            IN showStepText(h1, e, "btn_action", "buttonActionKeyboard")
       [] s.step = "btn_value" ->
            IF editing = NoEdit
            THEN showButtonGrid(SetStep(h0, "edit_buttons"), e)
            ELSE LET newButton ==
                       [text |-> IF s.pendingButtonText = Undef
                                 THEN DefaultButtonText
                                 ELSE s.pendingButtonText,
                        action |-> IF s.pendingButtonAction = Undef
                                   THEN "alert"
                                   ELSE s.pendingButtonAction,
                        value |-> e.text]
                     h1 == [h0 EXCEPT
                              !.s.message.buttons =
                                 IF editing.isNew
                                 THEN insertCell(@, editing.row, editing.col,
                                                 newButton)
                                 ELSE replaceCell(@, editing.row, editing.col,
                                                  newButton),
                              !.s.editingButton = NoEdit,
                              !.s.pendingButtonText = Undef,
                              !.s.pendingButtonAction = Undef]
                 IN showButtonGrid(SetStep(h1, "edit_buttons"), e)
       [] OTHER -> attach_text(s, e)

\* message:photo; e.text is the file id of the best photo
message_photo(s, e) ==
  LET h0 == Begin(s)
  IN IF s.step # "send_image" THEN h0
     ELSE showStepText(
            SetStep([h0 EXCEPT !.s.message.imageFileId = e.text], "add_image"),
            e, "add_image", "imageAttachedKeyboard")

\* ------------------------------------------------- the grid editor's layout
\* the token of a grid control in either flow
Ctl(flow, name) == IF flow = "attach" THEN "ab_" \o name ELSE name

\* kb.text(label, data): one control; data is the token, written here as its
\* parts (name, row, column) instead of the string joined with colons
Control(label, token) == [text |-> label, callback_data |-> token]

Spacer == Control("   ", <<"noop">>)

\* truncate(text, maxLen); the labels laid out here are short, a longer one
\* is cut and marked
truncate(text, maxLen) == IF Len(text) <= maxLen THEN text ELSE "<cut>"

\* the strip of controls above a row of n cells (or below the last row):
\* a spacer, then one control per cell with a spacer between two of them,
\* then a spacer
Strip(n, control) ==
  IF n = 0 THEN <<Spacer, Spacer>>
  ELSE [k \in 1..(2 * n + 1) |-> IF k % 2 = 0 THEN control ELSE Spacer]

\* a button row whose insert control between two cells carries the column
\* of the cell before it
ButtonRowRepeated(flow, buttons, r) ==
  LET row == buttons[r + 1]
      n == Len(row)
      cell(c) == Control((IF row[c + 1].action = "url" THEN "link " ELSE "alert ")
                           \o truncate(row[c + 1].text, 12),
                         <<Ctl(flow, "eb"), r, c>>)
  IN IF n = 0
     THEN <<Control("+left", <<Ctl(flow, "+c"), r, 0>>),
            Control("+right", <<Ctl(flow, "+c"), r, 0>>)>>
     ELSE [k \in 1..(2 * n + 1) |->
             IF k = 1 THEN Control("+left", <<Ctl(flow, "+c"), r, 0>>)
             ELSE IF k = 2 * n + 1
             THEN Control("+right", <<Ctl(flow, "+c"), r, n>>)
             ELSE IF k % 2 = 0 THEN cell(k \div 2 - 1)
             ELSE Control("+", <<Ctl(flow, "+c"), r, (k - 1) \div 2 - 1>>)]

\* the button row of grid row r: insert-left, then each cell with an insert
\* control between it and the next, then insert-right
ButtonRow(flow, buttons, r) ==
  LET row == buttons[r + 1]
      n == Len(row)
      cell(c) == Control((IF row[c + 1].action = "url" THEN "link " ELSE "alert ")
                           \o truncate(row[c + 1].text, 12),
                         <<Ctl(flow, "eb"), r, c>>)
  IN IF n = 0
     THEN <<Control("+left", <<Ctl(flow, "+c"), r, 0>>),
            Control("+right", <<Ctl(flow, "+c"), r, 0>>)>>
     ELSE [k \in 1..(2 * n + 1) |->
             IF k = 1 THEN Control("+left", <<Ctl(flow, "+c"), r, 0>>)
             ELSE IF k = 2 * n + 1
             THEN Control("+right", <<Ctl(flow, "+c"), r, n>>)
             ELSE IF k % 2 = 0 THEN cell(k \div 2 - 1)
             ELSE Control("+", <<Ctl(flow, "+c"), r, (k - 1) \div 2>>)]

\* what a generator gives on a grid with a hole: it throws
KeyboardThrown == << <<Control("TypeError", <<"TypeError">>)>> >>

\* the rows both generators lay out for a grid that is not empty: per grid
\* row a strip and a button row, then the strip below the last row
GridRows(flow, buttons) ==
  LET rows == Len(buttons)
      up(r) == Control("+up", <<Ctl(flow, "+r"), r>>)
      down == Control("+down", <<Ctl(flow, "+r"), rows>>)
  IN [k \in 1..(2 * rows) |->
        IF k % 2 = 1
        THEN Strip(Len(buttons[(k + 1) \div 2]), up((k - 1) \div 2))
        ELSE ButtonRow(flow, buttons, k \div 2 - 1)]
     \o << Strip(Len(buttons[rows]), down) >>

buttonGridKeyboard(buttons) ==
  IF Len(buttons) = 0
  THEN << <<Control("add", <<"+r", 0>>)>>,
          <<Control("skip", <<"skip_buttons">>)>>,
          <<Control("back", <<"back_to_image_or_pos">>)>> >>
  ELSE IF buttonGridKeyboardThrows(buttons) THEN KeyboardThrown
  ELSE GridRows("compose", buttons)
         \o << <<Control("done", <<"buttons_done">>)>>,
                <<Control("back", <<"back_to_image_or_pos">>)>> >>

attachButtonGridKeyboard(buttons) ==
  IF Len(buttons) = 0
  THEN << <<Control("add", <<"ab_+r", 0>>)>>,
          <<Control("cancel", <<"ab_cancel">>)>> >>
  ELSE IF buttonGridKeyboardThrows(buttons) THEN KeyboardThrown
  ELSE GridRows("attach", buttons)
         \o << <<Control("done", <<"ab_buttons_done">>)>>,
                <<Control("cancel", <<"ab_cancel">>)>> >>

\* ----------------------------------------------------- keyboards rendered
\* the tokens of the controls each keyboard of a render carries, by the name
\* the render is recorded with (the grid keyboards: the controls every grid
\* gives them; imagePositionKeyboard is defined in none of the sources and is
\* taken with the back control of its neighbours)
KeyboardTokens(kb) ==
  CASE kb = "startKeyboard" -> {"create_message", "attach_buttons_start"}
    [] kb = "addImageKeyboard" -> {"img_yes", "img_no", "back_to_text"}
    [] kb = "imageAttachedKeyboard" ->
         {"img_replace", "img_remove", "img_done", "back_to_text"}
    [] kb = "imagePositionKeyboard" ->
         {"imgpos_above", "imgpos_below", "back_to_image"}
    [] kb = "buttonGridKeyboard" -> {"+r", "back_to_image_or_pos"}
    [] kb = "buttonActionKeyboard" ->
         {"btnact_url", "btnact_alert", "back_to_buttons"}
    [] kb = "editButtonKeyboard" -> {"btn_edit", "btn_del", "back_to_buttons"}
    [] kb = "reviewKeyboard" ->
         {"goto_select_group", "edit_text", "edit_image",
          "edit_buttons_review", "back_to_buttons"}
    [] kb = "groupSelectionKeyboard" -> {"refresh_groups", "back_to_review"}
    [] kb = "confirmSendKeyboard" -> {"confirm_send", "back_to_groups"}
    [] kb = "attachButtonGridKeyboard" -> {"ab_+r", "ab_cancel"}
    [] kb = "attachButtonActionKeyboard" ->
         {"ab_btnact_url", "ab_btnact_alert", "ab_back_to_buttons"}
    [] kb = "attachEditButtonKeyboard" ->
         {"ab_btn_edit", "ab_btn_del", "ab_back_to_buttons"}
    [] kb = "attachAwaitingUrlKeyboard" -> {"ab_back_to_buttons", "ab_cancel"}
    [] kb = "cancelKeyboard" -> {"cancel"}
    [] kb = "backToImage" -> {"back_to_image"}
    [] kb = "backToButtons" -> {"back_to_buttons"}
    [] kb = "backToBtnAction" -> {"back_to_btn_action"}
    [] kb = "backToReviewDirect" -> {"back_to_review_direct"}
    [] kb = "abBackToButtons" -> {"ab_back_to_buttons"}
    [] kb = "abBackToBtnAction" -> {"ab_back_to_btn_action"}
    [] OTHER -> {}

\* ------------------------------------------------------------------ updates
\* an inbound update: a callback token with its indices, a text, a photo or
\* /start, together with what the transport does while it is handled
\* (tx: sends to the user's chat succeed; api: the call to the target chat
\* succeeds; groups: the stored group list; ids: what crypto.randomUUID()
\* gives, call after call; kv: the store answers the handler's own calls;
\* redis: the overflow entries the store holds while the update is handled)
AlertKeys == {"alert:" \o id : id \in ShortIds}

NoAlerts == [k \in AlertKeys |-> "null"]

Update(kind) ==
  [text |-> Undef, tx |-> TRUE, r |-> 0, c |-> 0, kv |-> TRUE, groups |-> {},
   chat |-> NoTarget, ids |-> <<"1a2b3c4d">>, api |-> TRUE,
   kind |-> kind, redis |-> NoAlerts]

\* ------------------------------------------- alert buttons of sent messages
\* the sentence shown for a reference the store no longer holds
EXPIRED == "Uvedomlenie ustarelo"

\* alert:TEXT, the alert text carried by the token itself (e.text)
alert_inline(s, e) == answerWithAlert(Begin(s), e.text)

\* redis.get of a key: the value, or null for a key the store does not hold
\* (a reference outside the ones ever drawn is never held)
redisGet(e, key) == IF key \in AlertKeys THEN e.redis[key] ELSE "null"

\* a resolver that shows whatever the lookup gave
alrtUnguarded(s, e) ==
  IF ~e.kv THEN Rejected(Begin(s))
  ELSE LET text == redisGet(e, "alert:" \o e.text)
       IN IF text = "null" THEN Throw(Begin(s))
          ELSE answerWithAlert(Begin(s), text)

\* alrt:SHORTID (e.text is the short id): the lookup comes first, and a
\* lookup that rejects ends the handler before the answer
alrt(s, e) ==
  IF ~e.kv THEN Rejected(Begin(s))
  ELSE LET text == redisGet(e, "alert:" \o e.text)
       IN answerWithAlert(Begin(s), IF text = "null" THEN EXPIRED ELSE text)


\* the middleware chain: commands, compose callbacks, attach callbacks, the
\* message handlers, then the catch-all
Handle(s, e) ==
  CASE e.kind = "start" -> handleStart(s, e)
    [] e.kind = "create_message" -> create_message(s, e)
    [] e.kind = "img_yes" -> img_yes(s, e)
    [] e.kind = "img_no" -> img_no(s, e)
    [] e.kind = "img_replace" -> img_replace(s, e)
    [] e.kind = "img_remove" -> img_remove(s, e)
    [] e.kind = "img_done" -> img_done(s, e)
    [] e.kind = "imgpos" -> imgpos(s, e)
    [] e.kind = "+r" -> add_row(s, e)
    [] e.kind = "+c" -> add_col(s, e)
    [] e.kind = "eb" -> edit_button_menu(s, e)
    [] e.kind = "btn_edit" -> btn_edit(s, e)
    [] e.kind = "btn_del" -> btn_del(s, e)
    [] e.kind = "noop" -> noop(s, e)
    [] e.kind = "skip_buttons" -> skip_buttons(s, e)
    [] e.kind = "buttons_done" -> buttons_done(s, e)
    [] e.kind = "btnact" -> btnact(s, e)
    [] e.kind = "edit_text" -> edit_text(s, e)
    [] e.kind = "edit_image" -> edit_image(s, e)
    [] e.kind = "edit_buttons_review" -> edit_buttons_review(s, e)
    [] e.kind = "goto_select_group" -> goto_select_group(s, e)
    [] e.kind = "refresh_groups" -> refresh_groups(s, e)
    [] e.kind = "grp" -> select_group(s, e)
    [] e.kind = "confirm_send" -> confirm_send(s, e)
    [] e.kind = "back_to_text" -> back_to_text(s, e)
    [] e.kind = "back_to_image" -> back_to_image(s, e)
    [] e.kind = "back_to_image_or_pos" -> back_to_image_or_pos(s, e)
    [] e.kind = "back_to_buttons" -> back_to_buttons(s, e)
    [] e.kind = "back_to_btn_action" -> back_to_btn_action(s, e)
    [] e.kind = "back_to_review" -> back_to_review(s, e)
    [] e.kind = "back_to_review_direct" -> back_to_review_direct(s, e)
    [] e.kind = "back_to_groups" -> back_to_groups(s, e)
    [] e.kind = "cancel" -> cancel(s, e)
    [] e.kind = "alert" -> alert_inline(s, e)
    [] e.kind = "alrt" -> alrt(s, e)
    [] e.kind = "attach_buttons_start" -> attach_buttons_start(s, e)
    [] e.kind = "ab_+r" -> ab_add_row(s, e)
    [] e.kind = "ab_+c" -> ab_add_col(s, e)
    [] e.kind = "ab_eb" -> ab_edit_button_menu(s, e)
    [] e.kind = "ab_btn_edit" -> ab_btn_edit(s, e)
    [] e.kind = "ab_btn_del" -> ab_btn_del(s, e)
    [] e.kind = "ab_buttons_done" -> ab_buttons_done(s, e)
    [] e.kind = "ab_btnact" -> ab_btnact(s, e)
    [] e.kind = "ab_back_to_buttons" -> ab_back_to_buttons(s, e)
    [] e.kind = "ab_back_to_btn_action" -> ab_back_to_btn_action(s, e)
    [] e.kind = "ab_cancel" -> ab_cancel(s, e)
    [] e.kind = "text" -> message_text(s, e)
    [] e.kind = "photo" -> message_photo(s, e)
    [] OTHER -> unhandled_callback(s, e)

\* a session layer that writes the session back even when the handler threw
CommitAlways(s, h) == h.s

\* lazySession: the session is written back after the chain returns, and not
\* at all when a handler threw
Commit(s, h) == IF h.fault THEN s ELSE h.s

\* -------------------------------------------------------------------- state
VARIABLES
  session,  \* the user's session as stored
  pre,      \* the stored session the last update was handled on
  ev,       \* the last update handled
  out,      \* what handling it did: answers, renders, sends, edits, fault,
            \* stores, notice, late, failed
  redis,    \* the overflow store: the alert text held under each key
  created,  \* the overflow entries written and not yet expired, each with
            \* the alert text of the button it was written for
  n,        \* updates handled so far
  link,     \* the string parseMessageLink is called on, as characters
  resolved, \* what the last call of parseMessageLink returned
  grid,     \* the grid a layout generator is called on
  layout,   \* the generator called last and the rows it returned
  race,     \* the handlers running at once: what each loaded and returned,
            \* and the order they finished in
  twin,     \* the session of a second user, who edits the attach grid
  chosen    \* the target chat selected since the compose flow last started
            \* over: before the last update and after it

vars ==
  <<session, pre, ev, out, redis, created, n, link, resolved, grid, layout,
    race, twin, chosen>>

\* no generator called yet
NoLayout == [flow |-> "none", rows |-> <<>>]

\* number of updates of one user that are handled at the same time
MaxRacers == 2
Racers == 1..MaxRacers

\* a handler that has not read ctx.session yet
Waiting ==
  [stage |-> "waiting", update |-> Update("none"), loaded |-> FreshSession,
   seen |-> 0, result |-> Begin(FreshSession)]

NoRace == [racers |-> [i \in Racers |-> Waiting], order |-> <<>>]

\* no target chat selected since the compose flow last started over
NoChoice == [was |-> NoTarget, is |-> NoTarget]

Effects(h) ==
  [answers |-> h.answers, renders |-> h.renders, sends |-> h.sends,
   edits |-> h.edits, fault |-> h.fault, stores |-> h.stores,
   notice |-> h.notice, late |-> h.late, failed |-> h.failed]

\* the store after the redis.set calls of one handling, in order
RECURSIVE redisSet(_, _)
redisSet(db, entries) ==
  IF entries = <<>> THEN db
  ELSE redisSet([db EXCEPT ![Head(entries).key] = Head(entries).value],
                Tail(entries))

Range(f) == {f[k] : k \in DOMAIN f}

Init ==
  /\ session = FreshSession
  /\ pre = FreshSession
  /\ ev = Update("none")
  /\ out = Effects(Begin(FreshSession))
  /\ n = 0
  /\ redis = NoAlerts
  /\ created = {}
  /\ link = <<>>
  /\ resolved = NoLink
  /\ grid = <<>>
  /\ layout = NoLayout
  /\ race = NoRace
  /\ twin = FreshSession
  /\ chosen = NoChoice

\* one update handled start to finish, over the store as it is
\* what handling update e on the stored session with outcome h leaves behind
Settled(e, h) ==
  /\ session' = Commit(session, h)
  /\ out' = Effects(h)
  /\ redis' = redisSet(redis, h.stores)
  /\ created' = created \cup Range(h.stores)
  /\ ev' = e
  /\ pre' = session
  /\ n' = n + 1
  /\ UNCHANGED <<link, resolved, grid, layout, race, twin, chosen>>

\* the update as the handler sees it: with the store as it is now
Seen(e) == [e EXCEPT !.redis = redis]

Handled(e) == Settled(Seen(e), Handle(session, Seen(e)))

Deliver(e) == n < MaxEvents /\ Handled(e)

\* a callback token without arguments
Token(kind) == \E tx \in BOOLEAN : Deliver([Update(kind) EXCEPT !.tx = tx])

\* a callback token carrying a row index
TokenR(kind) ==
  \E r \in Idx, tx \in BOOLEAN :
    Deliver([Update(kind) EXCEPT !.r = r, !.tx = tx])

\* a callback token carrying a row and a column index
TokenRC(kind) ==
  \E r \in Idx, c \in Idx, tx \in BOOLEAN :
    Deliver([Update(kind) EXCEPT !.r = r, !.c = c, !.tx = tx])

\* a callback token whose handler takes one of a few values
TokenV(kind, values) ==
  \E v \in values, tx \in BOOLEAN :
    Deliver([Update(kind) EXCEPT !.text = v, !.tx = tx])

OnStart == Token("start")
OnCreateMessage == Token("create_message")
OnImgYes == Token("img_yes")
OnImgNo == Token("img_no")
OnImgReplace == Token("img_replace")
OnImgRemove == Token("img_remove")
OnImgDone == Token("img_done")
OnImgPos == TokenV("imgpos", {"above", "below"})
OnAddRow == TokenR("+r")
OnAddCol == TokenRC("+c")
OnEditButtonMenu == TokenRC("eb")
OnBtnEdit == TokenRC("btn_edit")
OnBtnDel == TokenRC("btn_del")
OnNoop == Token("noop")
OnSkipButtons == Token("skip_buttons")
OnButtonsDone == Token("buttons_done")
OnBtnAct == TokenV("btnact", {"url", "alert"})
OnEditText == Token("edit_text")
OnEditImage == Token("edit_image")
OnEditButtonsReview == Token("edit_buttons_review")
OnGotoSelectGroup ==
  \E g \in {{}, Groups}, tx \in BOOLEAN, kv \in BOOLEAN :
    Deliver([Update("goto_select_group") EXCEPT !.groups = g, !.tx = tx,
                                               !.kv = kv])
OnRefreshGroups ==
  \E g \in {{}, Groups}, tx \in BOOLEAN, kv \in BOOLEAN :
    Deliver([Update("refresh_groups") EXCEPT !.groups = g, !.tx = tx,
                                            !.kv = kv])
OnSelectGroup ==
  \E g \in Groups, tx \in BOOLEAN, kv \in BOOLEAN :
    Deliver([Update("grp") EXCEPT !.chat = g, !.tx = tx, !.kv = kv])
OnConfirmSend ==
  \E tx \in BOOLEAN, api \in BOOLEAN :
    Deliver([Update("confirm_send") EXCEPT !.tx = tx, !.api = api])
OnBackToText == Token("back_to_text")
OnBackToImage == Token("back_to_image")
OnBackToImageOrPos == Token("back_to_image_or_pos")
OnBackToButtons == Token("back_to_buttons")
OnBackToBtnAction == Token("back_to_btn_action")
OnBackToReview == Token("back_to_review")
OnBackToReviewDirect == Token("back_to_review_direct")
OnBackToGroups == Token("back_to_groups")
OnCancel == Token("cancel")
OnUnhandled == Token("unknown")
OnAttachStart == Token("attach_buttons_start")
OnAbAddRow == TokenR("ab_+r")
OnAbAddCol == TokenRC("ab_+c")
OnAbEditButtonMenu == TokenRC("ab_eb")
OnAbBtnEdit == TokenRC("ab_btn_edit")
OnAbBtnDel == TokenRC("ab_btn_del")
OnAbButtonsDone == Token("ab_buttons_done")
OnAbBtnAct == TokenV("ab_btnact", {"url", "alert"})
OnAbBackToButtons == Token("ab_back_to_buttons")
OnAbBackToBtnAction == Token("ab_back_to_btn_action")
OnAbCancel == Token("ab_cancel")
OnText ==
  \E t \in Texts \cup LinkTexts, tx \in BOOLEAN, api \in BOOLEAN :
    Deliver([Update("text") EXCEPT !.text = t, !.tx = tx, !.api = api])
OnPhoto == TokenV("photo", Photos)

Next ==
  \/ OnStart \/ OnCreateMessage
  \/ OnImgYes \/ OnImgNo \/ OnImgReplace \/ OnImgRemove \/ OnImgDone \/ OnImgPos
  \/ OnAddRow \/ OnAddCol \/ OnEditButtonMenu \/ OnBtnEdit \/ OnBtnDel
  \/ OnNoop \/ OnSkipButtons \/ OnButtonsDone \/ OnBtnAct
  \/ OnEditText \/ OnEditImage \/ OnEditButtonsReview
  \/ OnGotoSelectGroup \/ OnRefreshGroups \/ OnSelectGroup \/ OnConfirmSend
  \/ OnBackToText \/ OnBackToImage \/ OnBackToImageOrPos \/ OnBackToButtons
  \/ OnBackToBtnAction \/ OnBackToReview \/ OnBackToReviewDirect
  \/ OnBackToGroups \/ OnCancel \/ OnUnhandled
  \/ OnAttachStart \/ OnAbAddRow \/ OnAbAddCol \/ OnAbEditButtonMenu
  \/ OnAbBtnEdit \/ OnAbBtnDel \/ OnAbButtonsDone \/ OnAbBtnAct
  \/ OnAbBackToButtons \/ OnAbBackToBtnAction \/ OnAbCancel
  \/ OnText \/ OnPhoto

Spec == Init /\ [][Next]_vars

\* ------------------------------------------------- sessions already in use
\* the session stored after a sequence of updates, each handled in turn
\* (the session is stored before the next update is taken)
RECURSIVE Run(_, _)
Run(s, path) ==
  IF path = <<>> \/ s.step = Undef THEN s
  ELSE Run(Commit(s, Handle(s, Head(path))), Tail(path))

Tap(kind) == Update(kind)
TapRC(kind, r, c) == [Update(kind) EXCEPT !.r = r, !.c = c]
TapV(kind, v) == [Update(kind) EXCEPT !.text = v]
Type(t) == [Update("text") EXCEPT !.text = t]

\* the updates that add one button through the grid editor
AddButton(flow, ctl, r, c, t, act, v) ==
  <<TapRC(Ctl(flow, ctl), r, c), Type(t), TapV(Ctl(flow, "btnact"), act), Type(v)>>

\* how the flow is entered from the home menu
Enter(flow) ==
  IF flow = "attach" THEN <<Tap("attach_buttons_start")>>
  ELSE <<Tap("create_message"), Type("A"), Tap("img_no")>>

\* grids the editor is exercised on: none, one empty row, [[a],[b,c]]
GridPaths(flow) ==
  { <<>>,
    <<TapRC(Ctl(flow, "+r"), 0, 0)>>,
    AddButton(flow, "+r", 0, 0, "A", "url", "A")
      \o AddButton(flow, "+r", 1, 0, "B", "alert", "B")
      \o AddButton(flow, "+c", 1, 1, "A", "alert", "B") }

\* a cursor placed by any control, a text typed and an action chosen
CursorPaths(flow) ==
  { <<>> } \cup
  { <<TapRC(Ctl(flow, ctl), r, c), Type("B"), TapV(Ctl(flow, "btnact"), "url")>> :
      ctl \in {"+c", "btn_edit"}, r \in Idx, c \in Idx }

\* a grid [[link, alert],[alert, alert]] whose alert texts lie on either
\* side of the callback_data limit
LongGrid(flow) ==
  AddButton(flow, "+r", 0, 0, "A", "url", "B")
    \o AddButton(flow, "+c", 0, 1, "B", "alert", Alert58)
    \o AddButton(flow, "+r", 1, 0, "A", "alert", Alert59)
    \o AddButton(flow, "+c", 1, 1, "B", "alert", WideAlert)

\* a composed message, with or without a photo, and a target chat chosen
ReadyPaths ==
  { enter \o g \o <<[Update("grp") EXCEPT !.chat = -1001]>> :
      enter \in { Enter("compose"),
                  <<Tap("create_message"), Type("A"), Tap("img_yes"),
                    [Update("photo") EXCEPT !.text = "photo1"]>> },
      g \in GridPaths("compose") \cup {LongGrid("compose")} }

\* the attach flow taken to the awaiting-link prompt: from a grid of one
\* button, of four, or of one empty row, with or without a cursor placed
\* before, and with or without a message being composed meanwhile
AwaitingPaths ==
  { before \o Enter("attach") \o g \o k \o <<Tap("ab_buttons_done")>> :
      before \in { <<>>, <<Tap("create_message")>> },
      g \in { AddButton("attach", "+r", 0, 0, "A", "url", "A"),
              LongGrid("attach"),
              <<TapRC("ab_+r", 0, 0)>> },
      k \in { <<>>, <<TapRC("ab_+c", 0, 1)>> } }

\* a message ready to be sent whose user has gone back to the review
SteppedBackPaths ==
  { ready \o <<Tap("back_to_review")>> : ready \in ReadyPaths }

SeedPaths ==
  UNION { { Enter(flow) \o g \o k : g \in GridPaths(flow), k \in CursorPaths(flow) } :
          flow \in {"compose", "attach"} }
  \cup ReadyPaths
  \cup AwaitingPaths
  \cup SteppedBackPaths

InitSeeded ==
  /\ \/ \E path \in SeedPaths : session = Run(FreshSession, path)
     \/ session = LegacySession
  /\ pre = session
  /\ ev = Update("none")
  /\ out = Effects(Begin(FreshSession))
  /\ n = 0
  /\ redis = NoAlerts
  /\ created = {}
  /\ link = <<>>
  /\ resolved = NoLink
  /\ grid = <<>>
  /\ layout = NoLayout
  /\ race = NoRace
  /\ twin = FreshSession
  /\ chosen = NoChoice

\* the controls of the two grid editors and the ways out of them, over a
\* transport that works
Again(e) == n < MaxEdits /\ Handled(e)
Press(kind) == Again(Update(kind))
PressRC(kind) == \E r \in Idx, c \in Idx : Again(TapRC(kind, r, c))
PressV(kind, values) == \E v \in values : Again(TapV(kind, v))

EdAddRow == \E r \in Idx : Again(TapRC("+r", r, 0))
EdAddCol == PressRC("+c")
EdBtnEdit == PressRC("btn_edit")
EdBtnDel == PressRC("btn_del")
EdBtnAct == PressV("btnact", {"url", "alert"})
EdBackToButtons == Press("back_to_buttons")
EdButtonsDone == Press("buttons_done")
EdCancel == Press("cancel")
EdNoop == Press("noop")
EdUnhandled == Press("unknown")
\* what two calls of crypto.randomUUID() may give
IdDraws == {<<a, b>> : a \in ShortIds, b \in ShortIds}
EdConfirmSend ==
  \E api \in BOOLEAN, kv \in BOOLEAN, ids \in IdDraws :
    Again([Update("confirm_send") EXCEPT !.api = api, !.kv = kv, !.ids = ids])
EdAbAddRow == \E r \in Idx : Again(TapRC("ab_+r", r, 0))
EdAbAddCol == PressRC("ab_+c")
EdAbBtnEdit == PressRC("ab_btn_edit")
EdAbBtnDel == PressRC("ab_btn_del")
EdAbBtnAct == PressV("ab_btnact", {"url", "alert"})
EdAbBackToButtons == Press("ab_back_to_buttons")
EdAbButtonsDone == Press("ab_buttons_done")
EdAbCancel == Press("ab_cancel")
EdText ==
  \E t \in Texts \cup LinkTexts \cup PrivateLinkTexts, api \in BOOLEAN,
     ids \in IdDraws :
    Again([Update("text") EXCEPT !.text = t, !.ids = ids, !.api = api])

NextSeeded ==
  \/ EdAddRow \/ EdAddCol \/ EdBtnEdit \/ EdBtnDel \/ EdBtnAct
  \/ EdBackToButtons \/ EdButtonsDone \/ EdCancel \/ EdConfirmSend
  \/ EdNoop \/ EdUnhandled
  \/ EdAbAddRow \/ EdAbAddCol \/ EdAbBtnEdit \/ EdAbBtnDel \/ EdAbBtnAct
  \/ EdAbBackToButtons \/ EdAbButtonsDone \/ EdAbCancel
  \/ EdText

SpecSeeded == InitSeeded /\ [][NextSeeded]_vars

\* ------------------------------------------------------ the link resolver
\* calls of parseMessageLink on one string
MaxResolves == 2

InitLink ==
  /\ session = FreshSession
  /\ pre = FreshSession
  /\ ev = Update("none")
  /\ out = Effects(Begin(FreshSession))
  /\ n = 0
  /\ redis = NoAlerts
  /\ created = {}
  /\ link \in LinkInputs
  /\ resolved = NoLink
  /\ grid = <<>>
  /\ layout = NoLayout
  /\ race = NoRace
  /\ twin = FreshSession
  /\ chosen = NoChoice

Resolve ==
  /\ n < MaxResolves
  /\ resolved' = parseMessageLink(link)
  /\ n' = n + 1
  /\ UNCHANGED <<session, pre, ev, out, redis, created, link, grid, layout, race,
            twin, chosen>>

NextLink == Resolve

SpecLink == InitLink /\ [][NextLink]_vars

\* ------------------------------------------------- the layout generators
\* rows of a grid and cells of a row the generators are called on
MaxRows == 2
MaxCols == 2

LayoutButtons ==
  { [text |-> "A", action |-> "url", value |-> "A"],
    [text |-> "B", action |-> "alert", value |-> "B"] }

LayoutRows == UNION { [1..k -> LayoutButtons] : k \in 0..MaxCols }

LayoutGrids == UNION { [1..k -> LayoutRows] : k \in 0..MaxRows }

InitLayout ==
  /\ session = FreshSession
  /\ pre = FreshSession
  /\ ev = Update("none")
  /\ out = Effects(Begin(FreshSession))
  /\ redis = NoAlerts
  /\ created = {}
  /\ n = 0
  /\ link = <<>>
  /\ resolved = NoLink
  /\ grid \in LayoutGrids
  /\ layout = NoLayout
  /\ race = NoRace
  /\ twin = FreshSession
  /\ chosen = NoChoice

Generated(flow, rows) ==
  /\ layout' = [flow |-> flow, rows |-> rows]
  /\ UNCHANGED <<session, pre, ev, out, redis, created, n, link, resolved, grid,
               race, twin, chosen>>

\* the compose flow renders its grid editor
LayCompose == Generated("compose", buttonGridKeyboard(grid))

\* the attach flow renders its grid editor
LayAttach == Generated("attach", attachButtonGridKeyboard(grid))

NextLayout == LayCompose \/ LayAttach

SpecLayout == InitLayout /\ [][NextLayout]_vars

\* ---------------------------------------------- alert buttons being tapped
\* updates handled while messages with alert buttons are sent and tapped
MaxTaps == 2

\* a grid of long alert texts about to be sent, about to be attached, or both
AlertPaths ==
  LET ready == Enter("compose") \o LongGrid("compose")
                 \o <<[Update("grp") EXCEPT !.chat = -1001]>>
      awaiting == Enter("attach") \o LongGrid("attach")
                    \o <<Tap("ab_buttons_done")>>
  IN {ready, awaiting, ready \o awaiting}

InitAlerts ==
  /\ \E path \in AlertPaths : session = Run(FreshSession, path)
  /\ pre = session
  /\ ev = Update("none")
  /\ out = Effects(Begin(FreshSession))
  /\ redis = NoAlerts
  /\ created = {}
  /\ n = 0
  /\ link = <<>>
  /\ resolved = NoLink
  /\ grid = <<>>
  /\ layout = NoLayout
  /\ race = NoRace
  /\ twin = FreshSession
  /\ chosen = NoChoice

Tapped(e) == n < MaxTaps /\ Handled(e)

\* the composed message is sent
AlConfirmSend ==
  \E api \in BOOLEAN, kv \in BOOLEAN, ids \in IdDraws :
    Tapped([Update("confirm_send") EXCEPT !.api = api, !.kv = kv, !.ids = ids])

\* the link of the post is pasted
AlLink ==
  \E t \in LinkTexts, api \in BOOLEAN, kv \in BOOLEAN, ids \in IdDraws :
    Tapped([Update("text") EXCEPT !.text = t, !.api = api, !.kv = kv,
                                 !.ids = ids])

\* somebody taps a button whose token is alrt:SHORTID
AlTap ==
  \E id \in ShortIds, kv \in BOOLEAN :
    Tapped([Update("alrt") EXCEPT !.text = id, !.kv = kv])

\* somebody taps a button whose token is alert:TEXT
AlTapInline == Tapped([Update("alert") EXCEPT !.text = Alert58])

\* the 30 days of an entry run out, or the entry is deleted
AlExpire ==
  \E k \in AlertKeys :
    /\ redis[k] # "null"
    /\ redis' = [redis EXCEPT ![k] = "null"]
    /\ created' = {w \in created : w.key # k}
    /\ UNCHANGED <<session, pre, ev, out, n, link, resolved, grid, layout, race,
            twin, chosen>>

NextAlerts == AlConfirmSend \/ AlLink \/ AlTap \/ AlTapInline \/ AlExpire

SpecAlerts == InitAlerts /\ [][NextAlerts]_vars

\* ------------------------------------------ updates handled at the same time
\* the webhook starts one handling per update and nothing orders the
\* handlings of one user: each reads the stored session when its handler
\* first awaits ctx.session and lazySession writes the value back when the
\* chain has returned
RaceSeeds ==
  { FreshSession,
    Run(FreshSession, Enter("compose")),
    Run(FreshSession, Enter("attach")),
    Run(FreshSession,
        Enter("compose") \o <<[Update("grp") EXCEPT !.chat = -1001]>>) }

RaceUpdates ==
  { [u EXCEPT !.tx = tx] :
      u \in { Tap("create_message"), TapRC("+r", 0, 0),
              Tap("attach_buttons_start"), Type("A"), Tap("cancel"),
              Tap("confirm_send") },
      tx \in BOOLEAN }

InitRace ==
  /\ session \in RaceSeeds
  /\ pre = session
  /\ ev = Update("none")
  /\ out = Effects(Begin(FreshSession))
  /\ n = 0
  /\ redis = NoAlerts
  /\ created = {}
  /\ link = <<>>
  /\ resolved = NoLink
  /\ grid = <<>>
  /\ layout = NoLayout
  /\ race = NoRace
  /\ twin = FreshSession
  /\ chosen = NoChoice

\* storage.read: a handling gets its own copy of the stored session; seen is
\* the number of write-backs that came before the read
RcLoad ==
  \E i \in Racers, e \in RaceUpdates :
    /\ race.racers[i].stage = "waiting"
    /\ race' = [race EXCEPT !.racers[i] =
                  [stage |-> "running", update |-> e, loaded |-> session,
                   seen |-> Len(race.order), result |-> Begin(session)]]
    /\ UNCHANGED <<session, pre, ev, out, redis, created, n, link, resolved,
                   grid, layout, twin, chosen>>

\* the handler works on its copy; storage.write after the chain returned
Finish(i, me, h) ==
  /\ me.stage = "running"
  /\ session' = Commit(session, h)
  /\ race' = [race EXCEPT !.racers[i].stage = "finished",
                          !.racers[i].result = h,
                          !.order = Append(@, i)]
  /\ pre' = me.loaded
  /\ ev' = me.update
  /\ out' = Effects(h)
  /\ n' = n + 1
  /\ UNCHANGED <<redis, created, link, resolved, grid, layout, twin, chosen>>

RcCommit ==
  \E i \in Racers :
    Finish(i, race.racers[i],
           Handle(race.racers[i].loaded, race.racers[i].update))

NextRace == RcLoad \/ RcCommit

SpecRace == InitRace /\ [][NextRace]_vars

\* ------------------------------------------- the two grid editors side by side
\* one user edits the compose grid, a second user the attach grid; every
\* editor event of the first is handled for the second in its ab_ form
MaxMirrored == 3
MirrorIdx == {0, 1}

\* the attach flow's form of a compose editor event
Mirror(e) == [e EXCEPT !.kind = IF @ = "text" THEN @ ELSE "ab_" \o @]

InitMirror ==
  /\ session = Run(FreshSession, Enter("compose"))
  /\ twin = Run(FreshSession, Enter("attach"))
  /\ pre = session
  /\ ev = Update("none")
  /\ out = Effects(Begin(FreshSession))
  /\ n = 0
  /\ redis = NoAlerts
  /\ created = {}
  /\ link = <<>>
  /\ resolved = NoLink
  /\ grid = <<>>
  /\ layout = NoLayout
  /\ race = NoRace
  /\ chosen = NoChoice

\* both handlings of one editor event and what each leaves stored
Both(e, h, g) ==
  /\ n < MaxMirrored
  /\ session' = Commit(session, h)
  /\ twin' = Commit(twin, g)
  /\ pre' = session
  /\ ev' = e
  /\ out' = Effects(h)
  /\ n' = n + 1
  /\ UNCHANGED <<redis, created, link, resolved, grid, layout, race, chosen>>

Mirrored(e) == Both(e, Handle(session, e), Handle(twin, Mirror(e)))

MrAddRow == \E r \in MirrorIdx : Mirrored(TapRC("+r", r, 0))
MrAddCol == \E r \in MirrorIdx, c \in MirrorIdx : Mirrored(TapRC("+c", r, c))
MrEditMenu == \E r \in MirrorIdx, c \in MirrorIdx : Mirrored(TapRC("eb", r, c))
MrBtnEdit ==
  \E r \in MirrorIdx, c \in MirrorIdx : Mirrored(TapRC("btn_edit", r, c))
MrBtnDel ==
  \E r \in MirrorIdx, c \in MirrorIdx : Mirrored(TapRC("btn_del", r, c))
MrBtnAct == \E v \in {"url", "alert"} : Mirrored(TapV("btnact", v))
MrBackToButtons == Mirrored(Tap("back_to_buttons"))
MrBackToBtnAction == Mirrored(Tap("back_to_btn_action"))
MrText == \E t \in Texts : Mirrored(Type(t))

NextMirror ==
  \/ MrAddRow \/ MrAddCol \/ MrEditMenu \/ MrBtnEdit \/ MrBtnDel \/ MrBtnAct
  \/ MrBackToButtons \/ MrBackToBtnAction \/ MrText

SpecMirror == InitMirror /\ [][NextMirror]_vars

\* ------------------------------------------------ target chats and resets
\* the compose flow started, given up and started again, with target chats
\* selected and sends confirmed in between
MaxTargetEvents == 4
TargetChats == {-1001, -1002}

InitTarget ==
  /\ session = FreshSession
  /\ pre = session
  /\ ev = Update("none")
  /\ out = Effects(Begin(FreshSession))
  /\ n = 0
  /\ redis = NoAlerts
  /\ created = {}
  /\ link = <<>>
  /\ resolved = NoLink
  /\ grid = <<>>
  /\ layout = NoLayout
  /\ race = NoRace
  /\ twin = FreshSession
  /\ chosen = NoChoice

\* the target chat selected since the last create-message, cancel, /start or
\* successful send, once update e has been handled with outcome h
Selected(e, h, before) ==
  IF h.fault THEN before
  ELSE IF e.kind = "grp" THEN e.chat
  ELSE IF e.kind \in {"create_message", "cancel", "start"} THEN NoTarget
  ELSE IF e.kind = "confirm_send" /\ h.sends # <<>> /\ h.sends[1].ok
  THEN NoTarget
  ELSE before

Followed(e, h) ==
  /\ n < MaxTargetEvents
  /\ session' = Commit(session, h)
  /\ out' = Effects(h)
  /\ ev' = e
  /\ pre' = session
  /\ n' = n + 1
  /\ chosen' = [was |-> chosen.is, is |-> Selected(e, h, chosen.is)]
  /\ UNCHANGED <<redis, created, link, resolved, grid, layout, race, twin>>

Follow(e) == Followed(e, Handle(session, e))

TgStart == Follow(Update("start"))
TgCreateMessage == Follow(Tap("create_message"))
TgCancel == Follow(Tap("cancel"))
TgText == \E t \in Texts : Follow(Type(t))
TgSelectGroup ==
  \E chat \in TargetChats : Follow([Update("grp") EXCEPT !.chat = chat])
TgConfirmSend ==
  \E api \in BOOLEAN : Follow([Update("confirm_send") EXCEPT !.api = api])

NextTarget ==
  \/ TgStart \/ TgCreateMessage \/ TgCancel \/ TgText \/ TgSelectGroup
  \/ TgConfirmSend

SpecTarget == InitTarget /\ [][NextTarget]_vars

\* ------------------------------------------------------------------ claims
\* the attach grid of a session; a session without attachFlow has none yet
AttachButtons(s) == IF s.attachFlow = NoAttach THEN <<>> ELSE s.attachFlow.buttons

\* C1: in either flow, when a row-insert or column-insert control has just
\* started a new-button insertion on the grid G of the session it was
\* handled on, a back-to-buttons navigation leaves the grid equal to G and
\* clears the edit cursor and both pending button fields.
C1_BackRestoresGrid ==
  /\ (ev.kind \in {"+r", "+c"} /\ ~out.fault) =>
       LET h == Handle(session, Update("back_to_buttons"))
       IN  /\ ~h.fault
           /\ h.s.message.buttons = pre.message.buttons
           /\ h.s.editingButton = NoEdit
           /\ h.s.pendingButtonText = Undef
           /\ h.s.pendingButtonAction = Undef
  /\ (ev.kind \in {"ab_+r", "ab_+c"} /\ ~out.fault) =>
       LET h == Handle(session, Update("ab_back_to_buttons"))
       IN  /\ ~h.fault
           /\ h.s.attachFlow.buttons = AttachButtons(pre)
           /\ h.s.attachFlow.editingButton = NoEdit
           /\ h.s.attachFlow.pendingButtonText = Undef
           /\ h.s.attachFlow.pendingButtonAction = Undef

\* C2: a stored session has no empty row in the compose grid or in the
\* attach grid; stated here for the sessions in which no insertion is in
\* progress, which is the least the claim says.
C2_NoEmptyRowStored ==
  /\ session.editingButton = NoEdit =>
       \A i \in 1..Len(session.message.buttons) : session.message.buttons[i] # <<>>
  /\ (session.attachFlow # NoAttach /\ session.attachFlow.editingButton = NoEdit) =>
       \A i \in 1..Len(session.attachFlow.buttons) :
         session.attachFlow.buttons[i] # <<>>

\* C3: when a button value input has just completed the insertion of a new
\* button at the cursor (r, c) into the grid G, the cell-delete control for
\* (r, c) gives back a grid equal to G; in both flows.
C3_DeleteUndoesInsert ==
  /\ ( /\ ev.kind = "text" /\ ~out.fault
       /\ pre.step = "btn_value" /\ pre.editingButton.isNew ) =>
       LET h == Handle(session, TapRC("btn_del", pre.editingButton.row,
                                      pre.editingButton.col))
       IN  ~h.fault /\ h.s.message.buttons = pre.message.buttons
  /\ ( /\ ev.kind = "text" /\ ~out.fault
       /\ pre.step \notin {"write_text", "btn_text", "btn_value"}
       /\ pre.attachFlow # NoAttach
       /\ pre.attachFlow.step # "attach_idle"
       /\ pre.attachFlow.editingButton.isNew
       /\ pre.attachFlow.pendingButtonText # Undef
       /\ pre.attachFlow.pendingButtonAction # Undef ) =>
       LET h == Handle(session, TapRC("ab_btn_del", pre.attachFlow.editingButton.row,
                                      pre.attachFlow.editingButton.col))
       IN  ~h.fault /\ h.s.attachFlow.buttons = pre.attachFlow.buttons

\* C4: the cell-delete control on an existing cell (r, c), in either flow:
\* a row of one button is removed and the later rows move up by one; a row
\* of n > 1 buttons keeps its other n-1 buttons in order at columns 0..n-2;
\* every other row is unchanged.
C4_DeleteCellShape ==
  \A flow \in {"compose", "attach"} :
    LET G  == IF flow = "compose" THEN pre.message.buttons ELSE AttachButtons(pre)
        G2 == IF flow = "compose" THEN session.message.buttons
              ELSE AttachButtons(session)
        r  == ev.r
        c  == ev.c
    IN ( /\ ev.kind = Ctl(flow, "btn_del") /\ ~out.fault
         /\ r < Len(G) /\ c < Len(G[r + 1]) ) =>
         IF Len(G[r + 1]) = 1
         THEN /\ Len(G2) = Len(G) - 1
              /\ \A i \in 1..Len(G2) : G2[i] = IF i <= r THEN G[i] ELSE G[i + 1]
         ELSE /\ Len(G2) = Len(G)
              /\ \A i \in 1..Len(G) : i # r + 1 => G2[i] = G[i]
              /\ Len(G2[r + 1]) = Len(G[r + 1]) - 1
              /\ \A j \in 1..Len(G2[r + 1]) :
                   G2[r + 1][j] = IF j <= c THEN G[r + 1][j] ELSE G[r + 1][j + 1]

\* C4 witness: the first of two buttons of the second row has been deleted
C4_Witness ==
  /\ ev.kind = "btn_del" /\ ~out.fault
  /\ ev.r = 1 /\ ev.c = 0
  /\ Len(pre.message.buttons) = 2
  /\ Len(pre.message.buttons[2]) = 2
  /\ session.message.buttons = <<pre.message.buttons[1], <<pre.message.buttons[2][2]>>>>

\* C5: in every stored session every row of the compose grid and of the
\* attach grid is a sequence of buttons without an undefined cell, and neither
\* grid has an undefined row.
C5_GridsGapFree ==
  \A flow \in {"compose", "attach"} :
    LET G == IF flow = "compose" THEN session.message.buttons
             ELSE AttachButtons(session)
    IN \A i \in 1..Len(G) :
         /\ G[i] # NoRow
         /\ \A j \in 1..Len(G[i]) : G[i][j] # NoCell

\* C5 witness: a button value arrived for a cursor whose row lies beyond the
\* end of the grid; the handling faulted and the stored session is unchanged
C5_Witness ==
  /\ ev.kind = "text" /\ ev.tx
  /\ pre.step = "btn_value"
  /\ pre.editingButton.isNew
  /\ pre.editingButton.row > Len(pre.message.buttons)
  /\ out.fault
  /\ session = pre

\* C6: a text input in the button value step with edit cursor (r, c, isNew),
\* in either flow: for a new button, row r becomes the old row r with the
\* assembled button inserted at column c and the later cells moved right (a
\* row r equal to the grid length is created with that one cell), the other
\* rows unchanged; for an existing button only cell (r, c) changes; the
\* step returns to the button grid and the cursor and both pending fields
\* are cleared.
C6_ValueInputPlacesButton ==
  \A flow \in {"compose", "attach"} :
    LET old == IF flow = "compose" THEN pre ELSE pre.attachFlow
        new == IF flow = "compose" THEN session ELSE session.attachFlow
        G   == IF flow = "compose" THEN pre.message.buttons ELSE AttachButtons(pre)
        G2  == IF flow = "compose" THEN session.message.buttons
               ELSE AttachButtons(session)
        composeInput == pre.step = "btn_value" /\ pre.editingButton # NoEdit
        attachInput ==
          /\ pre.step \notin {"write_text", "btn_text", "btn_value"}
          /\ pre.attachFlow # NoAttach
          /\ pre.attachFlow.step # "attach_idle"
          /\ pre.attachFlow.editingButton # NoEdit
          /\ pre.attachFlow.pendingButtonText # Undef
          /\ pre.attachFlow.pendingButtonAction # Undef
        r   == old.editingButton.row
        c   == old.editingButton.col
        b   == [text |-> IF old.pendingButtonText = Undef THEN DefaultButtonText
                         ELSE old.pendingButtonText,
                action |-> IF old.pendingButtonAction = Undef THEN "alert"
                           ELSE old.pendingButtonAction,
                value |-> ev.text]
    IN ( /\ ev.kind = "text" /\ ev.tx
         /\ IF flow = "compose" THEN composeInput ELSE attachInput ) =>
       /\ ~out.fault
       /\ new.step = IF flow = "compose" THEN "edit_buttons" ELSE "attach_edit_buttons"
       /\ new.editingButton = NoEdit
       /\ new.pendingButtonText = Undef
       /\ new.pendingButtonAction = Undef
       /\ IF old.editingButton.isNew
          THEN IF r = Len(G)
               THEN G2 = G \o <<<<b>>>>
               ELSE /\ r < Len(G) /\ c <= Len(G[r + 1])
                    /\ Len(G2) = Len(G)
                    /\ \A i \in 1..Len(G) : i # r + 1 => G2[i] = G[i]
                    /\ G2[r + 1] = SubSeq(G[r + 1], 1, c) \o <<b>>
                                     \o SubSeq(G[r + 1], c + 1, Len(G[r + 1]))
          ELSE /\ Len(G2) = Len(G)
               /\ \A i \in 1..Len(G) :
                    /\ Len(G2[i]) = Len(G[i])
                    /\ \A j \in 1..Len(G[i]) :
                         G2[i][j] = IF i = r + 1 /\ j = c + 1 THEN b ELSE G[i][j]

\* C7: after a compose cancel received outside idle, and after a confirm-send
\* that sent the message, the session is fully reset: step idle, empty text,
\* no image, empty grid, no edit cursor, no pending button text or action, no
\* target chat; and the home menu is what was rendered.
C7_ComposeFullyReset ==
  ( /\ ~out.fault
    /\ \/ ev.kind = "cancel" /\ pre.step # "idle"
       \/ ev.kind = "confirm_send" /\ out.sends # <<>> /\ out.sends[1].ok ) =>
    /\ session.step = "idle"
    /\ session.message.text = ""
    /\ session.message.imageFileId = Undef
    /\ session.message.buttons = <<>>
    /\ session.editingButton = NoEdit
    /\ session.pendingButtonText = Undef
    /\ session.pendingButtonAction = Undef
    /\ session.targetGroupId = NoTarget
    /\ Len(out.renders) = 1
    /\ out.renders[1].kb = "startKeyboard"

\* C8: the attach cancel, received in any attach state, sets the attach step
\* to idle, empties the attach grid, clears the attach cursor and both attach
\* pending fields, and renders the home menu.
C8_AttachCancelResets ==
  (ev.kind = "ab_cancel" /\ ~out.fault) =>
    /\ session.attachFlow # NoAttach
    /\ session.attachFlow.step = "attach_idle"
    /\ session.attachFlow.buttons = <<>>
    /\ session.attachFlow.editingButton = NoEdit
    /\ session.attachFlow.pendingButtonText = Undef
    /\ session.attachFlow.pendingButtonAction = Undef
    /\ out.renders = <<[msg |-> "attach_cancelled", kb |-> "startKeyboard"]>>

\* C8 witness: the attach flow was cancelled with buttons in the grid and a
\* button in the middle of its creation
C8_Witness ==
  /\ ev.kind = "ab_cancel" /\ ~out.fault
  /\ pre.attachFlow # NoAttach
  /\ Len(pre.attachFlow.buttons) = 2
  /\ pre.attachFlow.editingButton # NoEdit
  /\ pre.attachFlow.pendingButtonAction # Undef
  /\ session.attachFlow.buttons = <<>>

\* C9: an update of the compose flow leaves the attach step, grid and staging
\* as they were, and an update of the attach flow leaves the compose step,
\* message and staging as they were.
C9_FlowsKeepApart ==
  /\ ( /\ pre.attachFlow # NoAttach
       /\ \/ ev.kind \in {"create_message", "cancel", "confirm_send",
                          "+r", "+c", "btn_edit", "btn_del", "btnact",
                          "back_to_buttons", "buttons_done"}
          \/ ev.kind = "text" /\ pre.step \in {"write_text", "btn_text", "btn_value"} ) =>
       session.attachFlow = pre.attachFlow
  /\ ( \/ ev.kind \in {"attach_buttons_start", "ab_cancel", "ab_+r", "ab_+c",
                       "ab_btn_edit", "ab_btn_del", "ab_btnact",
                       "ab_back_to_buttons", "ab_buttons_done"}
       \/ ev.kind = "text" /\ pre.step \notin {"write_text", "btn_text", "btn_value"} ) =>
       /\ session.step = pre.step
       /\ session.message = pre.message
       /\ session.editingButton = pre.editingButton
       /\ session.pendingButtonText = pre.pendingButtonText
       /\ session.pendingButtonAction = pre.pendingButtonAction
       /\ session.targetGroupId = pre.targetGroupId

\* C10: a confirm-send on a message with empty text and no image sends
\* nothing to the target chat, leaves the step, the message and the target
\* chat as they were, and renders a validation message with the review
\* controls.
C10_EmptyMessageNotSent ==
  ( /\ ev.kind = "confirm_send"
    /\ pre.message.text = "" /\ pre.message.imageFileId = Undef ) =>
    /\ out.sends = <<>>
    /\ session.step = pre.step
    /\ session.message = pre.message
    /\ session.targetGroupId = pre.targetGroupId
    /\ ~out.fault =>
         /\ Len(out.renders) = 1
         /\ out.renders[1].msg \in {"empty_message", "no_target"}
         /\ out.renders[1].kb = "reviewKeyboard"

\* C10 witness: a target chat was chosen, the message was empty, and the
\* confirm-send rendered the validation message
C10_Witness ==
  /\ ev.kind = "confirm_send" /\ ~out.fault
  /\ pre.targetGroupId # NoTarget
  /\ pre.message.text = "" /\ pre.message.imageFileId = Undef
  /\ out.renders = <<[msg |-> "empty_message", kb |-> "reviewKeyboard"]>>
  /\ out.sends = <<>>

\* the last handling made exactly one send call and no edit call: to the
\* target chat, sendMessage without an image and sendPhoto with one, carrying
\* the composed text and a keyboard with one button per grid cell in the
\* grid's row and column order, each link button carrying its URL
SentAsComposed ==
  /\ out.edits = <<>>
  /\ Len(out.sends) = 1
  /\ LET m == out.sends[1]
         g == pre.message.buttons
         kb == m.reply_markup
     IN /\ m.chat = pre.targetGroupId
        /\ m.text = pre.message.text
        /\ m.photo = pre.message.imageFileId
        /\ m.call = IF pre.message.imageFileId = Undef
                    THEN "sendMessage" ELSE "sendPhoto"
        /\ Len(kb) = Len(g)
        /\ \A i \in 1..Len(g) :
             /\ Len(kb[i]) = Len(g[i])
             /\ \A j \in 1..Len(g[i]) :
                  /\ kb[i][j].text = g[i][j].text
                  /\ IF g[i][j].action = "url"
                     THEN /\ kb[i][j].url = g[i][j].value
                          /\ kb[i][j].callback_data = Undef
                     ELSE /\ kb[i][j].url = Undef
                          /\ kb[i][j].callback_data # Undef

\* a confirm-send on a message with content and a target chat
SendConfirmed ==
  /\ ev.kind = "confirm_send"
  /\ pre.targetGroupId # NoTarget
  /\ ~(pre.message.text = "" /\ pre.message.imageFileId = Undef)

\* C11 as stated: a confirm-send on a message with content and a target chat
\* makes exactly one send call, carrying the composed text and the grid.
C11_SendCarriesGrid == SendConfirmed => SentAsComposed

\* the first redis.set of an alert text that does not fit is rejected
OverflowWriteRejected ==
  ~ev.kv /\ SelectSeq(Visited(pre.message.buttons), Overflows) # <<>>

\* C11 (amended): a confirm-send on a message with content and a target chat
\* makes exactly one send call to the target chat, carrying the composed text
\* and one button per grid cell in row and column order, unless the store
\* rejects the write of an alert text that does not fit its token: then no
\* send call is made and the send-failed render is shown.
C11_SendCarriesGridOnceStored ==
  SendConfirmed =>
    IF OverflowWriteRejected
    THEN /\ out.sends = <<>>
         /\ out.edits = <<>>
         /\ out.stores = <<>>
         /\ out.renders = <<[msg |-> "send_failed", kb |-> "reviewKeyboard"]>>
    ELSE SentAsComposed

\* a photo with a two-row grid holding a link button has been sent
C11_Witness ==
  /\ ev.kind = "confirm_send"
  /\ Len(out.sends) = 1
  /\ out.sends[1].ok
  /\ out.sends[1].call = "sendPhoto"
  /\ Len(pre.message.buttons) = 2
  /\ Len(pre.message.buttons[2]) = 2
  /\ pre.message.buttons[1][1].action = "url"
  /\ out.sends[1].reply_markup[1][1].url = "B"

\* C12: in the attach flow ab_buttons_done moves the step to
\* attach_awaiting_url only if the attach grid holds at least one button;
\* with no button in the grid it answers once, renders nothing and leaves
\* every session field as it was (a session stored without attachFlow reads
\* as one with an idle attach flow).
C12_DoneNeedsButton ==
  (ev.kind = "ab_buttons_done" /\ Cells(AttachButtons(pre)) = <<>>) =>
    /\ out.answers = 1
    /\ out.renders = <<>>
    /\ ensureAttachFlow(session) = ensureAttachFlow(pre)

\* a text has just been handled on a session whose attach flow was at the
\* awaiting-link prompt
TextAtAwaitingLink ==
  /\ ev.kind = "text"
  /\ pre.attachFlow # NoAttach
  /\ pre.attachFlow.step = "attach_awaiting_url"

\* C13: at the awaiting-link prompt a text that resolves to a (chat, message)
\* pair causes exactly one editMessageReplyMarkup call, to that pair, with
\* the keyboard built from the attach grid, and no send to any chat; when
\* the call succeeds the attach flow is idle again with an empty grid and the
\* home menu is rendered.
C13_LinkAttachesGrid ==
  (TextAtAwaitingLink /\ parseMessageLink(Chars(ev.text)) # NoLink) =>
    /\ out.sends = <<>>
    /\ Len(out.edits) = 1
    /\ out.edits[1].chatId = parseMessageLink(Chars(ev.text)).chatId
    /\ out.edits[1].messageId = parseMessageLink(Chars(ev.text)).messageId
    /\ out.edits[1].reply_markup = inlineKeyboard(ev, pre.attachFlow.buttons)
    /\ out.edits[1].ok =>
         /\ session.attachFlow = AttachLiteral("attach_idle")
         /\ out.renders = <<[msg |-> "attached_ok", kb |-> "startKeyboard"]>>

\* C14: at the awaiting-link prompt a text the resolver finds no link in
\* causes no editMessageReplyMarkup call and no redis.set, leaves the attach
\* step and grid as they were and renders the validation message with the
\* awaiting-link controls.
C14_NoMatchReprompts ==
  (TextAtAwaitingLink /\ parseMessageLink(Chars(ev.text)) = NoLink) =>
    /\ out.edits = <<>>
    /\ out.stores = <<>>
    /\ session.attachFlow.step = "attach_awaiting_url"
    /\ session.attachFlow.buttons = pre.attachFlow.buttons
    /\ out.renders =
         <<[msg |-> "invalid_link", kb |-> "attachAwaitingUrlKeyboard"]>>

\* C15: when the editMessageReplyMarkup call fails, the attach flow stays at
\* the awaiting-link prompt with its grid as it was, the failure is rendered
\* with the awaiting-link controls, and the same link sent again over a
\* transport that works is attached with the same grid.
C15_FailedAttachKeepsGrid ==
  (ev.kind = "text" /\ Len(out.edits) = 1 /\ ~out.edits[1].ok) =>
    /\ session.attachFlow.step = "attach_awaiting_url"
    /\ session.attachFlow.buttons = pre.attachFlow.buttons
    /\ out.renders =
         <<[msg |-> "attach_failed", kb |-> "attachAwaitingUrlKeyboard"]>>
    /\ LET again == Handle(session, [ev EXCEPT !.api = TRUE])
       IN /\ Len(again.edits) = 1
          /\ again.edits[1].ok
          /\ again.edits[1].reply_markup = out.edits[1].reply_markup
          /\ again.edits[1].chatId = out.edits[1].chatId

\* the call for a grid of four buttons to a private channel's message failed
C15_Witness ==
  /\ ev.kind = "text"
  /\ Len(out.edits) = 1
  /\ ~out.edits[1].ok
  /\ out.edits[1].chatId = "-1001234567890"
  /\ Len(Cells(session.attachFlow.buttons)) = 4

\* the outbound keyboard handed to the transport by the last update, and the
\* grid it was built from
BuiltFrom ==
  IF ev.kind = "confirm_send" /\ out.sends # <<>> THEN pre.message.buttons
  ELSE IF ev.kind = "text" /\ out.edits # <<>> THEN pre.attachFlow.buttons
  ELSE <<>>
BuiltKeyboard ==
  IF ev.kind = "confirm_send" /\ out.sends # <<>> THEN out.sends[1].reply_markup
  ELSE IF ev.kind = "text" /\ out.edits # <<>> THEN out.edits[1].reply_markup
  ELSE <<>>

\* C20: when an outbound keyboard is built, an alert button whose candidate
\* "alert:" + text is at most 64 bytes of UTF-8 carries the candidate as its
\* callback_data and causes no redis.set; an alert button whose candidate is
\* longer causes exactly one redis.set, of its text under "alert:" + a
\* reference the builder has just drawn, and carries "alrt:" + that
\* reference, which differs from the candidate and is at most 64 bytes;
\* link buttons cause no redis.set.  Two references drawn for one keyboard
\* are not compared with each other.
C20_OverflowIndirection ==
  LET cells == Cells(BuiltFrom)
      outs == Cells(BuiltKeyboard)
      candidateBytes(btn) == Len("alert:") + byteLength(btn.value)
      long(k) == cells[k].action # "url"
                   /\ candidateBytes(cells[k]) > MAX_CALLBACK_DATA
      \* the number of oversized alert buttons among the first k cells
      rank(k) == Cardinality({j \in 1..k : long(j)})
  IN (ev.kind \in {"confirm_send", "text"}) =>
       /\ (out.stores # <<>>) => (out.sends # <<>> \/ out.edits # <<>>)
       /\ Len(outs) = Len(cells)
       /\ Len(out.stores) = rank(Len(cells))
       /\ \A k \in 1..Len(cells) :
            IF cells[k].action = "url" THEN outs[k].callback_data = Undef
            ELSE IF ~long(k)
            THEN outs[k].callback_data = "alert:" \o cells[k].value
            ELSE \E ref \in ShortIds :
                   /\ out.stores[rank(k)].key = "alert:" \o ref
                   /\ out.stores[rank(k)].value = cells[k].value
                   /\ outs[k].callback_data = "alrt:" \o ref
                   /\ outs[k].callback_data # "alert:" \o cells[k].value
                   /\ byteLength(outs[k].callback_data) <= MAX_CALLBACK_DATA

\* a message was sent whose grid holds an alert text of exactly 64 bytes with
\* its prefix, carried inline, and two longer ones, stored
C20_Witness ==
  /\ ev.kind = "confirm_send"
  /\ Len(out.sends) = 1
  /\ Len(out.stores) = 2
  /\ out.stores[2].value = WideAlert
  /\ out.sends[1].reply_markup[1][2].callback_data = "alert:" \o Alert58
  /\ out.sends[1].reply_markup[2][2].callback_data = "alrt:" \o ev.ids[2]

\* ----- the shapes of a message link
AllDigits(u) == u # <<>> /\ \A k \in 1..Len(u) : u[k] \in Digits
\* the decimal writing of the integer a string of digits holds
IntegerOf(u) == Written(StripZeros(DigitsOf(u)))
\* a Number holds the integer exactly
FitsNumber(ds) == ~Less(TwoTo53, StripZeros(ds))
THost == <<"t", ".", "m", "e">>

\* the segments between the slashes of a path
RECURSIVE Split(_)
Split(u) ==
  LET cut == {k \in 1..Len(u) : u[k] = "/"}
  IN IF cut = {} THEN <<u>>
     ELSE LET k == Leftmost(cut)
          IN <<SubSeq(u, 1, k - 1)>> \o Split(SubSeq(u, k + 1, Len(u)))

\* the path segments of [scheme://]t.me/..., none for any other string
LinkPath(u) ==
  LET t == trim(u)
      https == <<"h", "t", "t", "p", "s", ":", "/", "/">>
      http == <<"h", "t", "t", "p", ":", "/", "/">>
      rest == IF LiteralAt(t, 1, https) THEN SubSeq(t, Len(https) + 1, Len(t))
              ELSE IF LiteralAt(t, 1, http) THEN SubSeq(t, Len(http) + 1, Len(t))
              ELSE t
  IN IF LiteralAt(rest, 1, TMe) THEN Split(SubSeq(rest, Len(TMe) + 1, Len(rest)))
     ELSE <<>>

\* [scheme://]t.me/HANDLE/ID and [scheme://]t.me/c/F/ID
IsPublicForm(u) ==
  /\ Len(LinkPath(u)) = 2
  /\ LinkPath(u)[1] # <<>>
  /\ AllDigits(LinkPath(u)[2])
IsPrivateForm(u) ==
  /\ Len(LinkPath(u)) = 3
  /\ LinkPath(u)[1] = <<"c">>
  /\ AllDigits(LinkPath(u)[2])
  /\ AllDigits(LinkPath(u)[3])

C17_PrivateChatIdConcat ==
  (n >= 1 /\ IsPrivateForm(link)) =>
    /\ resolved.chatId = "-100" \o Str(LinkPath(link)[2])
    /\ resolved.messageId = IntegerOf(LinkPath(link)[3])

\* C17, amended: the same for every F and M whose integers, "100" followed
\* by F and M itself, do not exceed 2^53, the integers a JavaScript number
\* holds exactly.
C17_PrivateChatIdConcatExact ==
  (n >= 1 /\ IsPrivateForm(link)
     /\ FitsNumber(<<1, 0, 0>> \o DigitsOf(LinkPath(link)[2]))
     /\ FitsNumber(DigitsOf(LinkPath(link)[3]))) =>
    /\ resolved.chatId = "-100" \o Str(LinkPath(link)[2])
    /\ resolved.messageId = IntegerOf(LinkPath(link)[3])

\* the link https://t.me/c/0123/007 has been resolved
C17_Witness ==
  /\ n >= 1
  /\ link = PrivateLink(<<"h", "t", "t", "p", "s", ":", "/", "/">>, THost,
                        <<"0", "1", "2", "3">>, <<"0", "0", "7">>, <<>>)
  /\ resolved.chatId = "-1000123"
  /\ resolved.messageId = "7"

\* a handle of 5 characters or more, a letter or underscore first, then
\* letters, digits or underscores
ValidHandle(ha) ==
  /\ Len(ha) >= 5
  /\ ha[1] \in HandleStart
  /\ \A k \in 1..Len(ha) : ha[k] \in WordChars

\* C18: a link [scheme://]t.me/HANDLE/ID resolves to @HANDLE and the integer
\* ID exactly when HANDLE is a valid handle; a link [scheme://]t.me/c/F/ID is
\* never resolved to a handle; a string of neither shape resolves to null.
C18_PublicFormExactly ==
  n >= 1 =>
    /\ IsPublicForm(link) =>
         (ValidHandle(LinkPath(link)[1]) <=>
            /\ resolved # NoLink
            /\ resolved.chatId = "@" \o Str(LinkPath(link)[1])
            /\ resolved.messageId = parseInt(LinkPath(link)[2]))
    /\ IsPrivateForm(link) =>
         \A i \in 1..Len(link), j \in 1..Len(link) :
           resolved.chatId # "@" \o Str(SubSeq(link, i, j))
    /\ (~IsPublicForm(link) /\ ~IsPrivateForm(link)) => resolved = NoLink

\* C19: every link the resolver returns has a message id of at least 1.
C19_MessageIdPositive ==
  (n >= 1 /\ resolved # NoLink) => resolved.messageId # "0"

\* C21: a tap on a button carrying an overflow reference, while the store
\* answers and the entry has not expired, shows the alert text of the button
\* the reference was written for, whatever other references were written.
C21_ReferenceKeepsItsText ==
  (ev.kind = "alrt" /\ ev.kv) =>
    \A w \in created : w.key = "alert:" \o ev.text => out.notice = w.value

\* C22: a tap on a reference the store does not hold, while the store
\* answers, is answered once with the expired sentence, without a fault,
\* writes nothing to the overflow store and leaves the session as it was.
C22_AbsentReferenceSentinel ==
  (ev.kind = "alrt" /\ ev.kv /\ redisGet(ev, "alert:" \o ev.text) = "null") =>
    /\ out.notice = EXPIRED
    /\ out.answers = 1
    /\ ~out.fault
    /\ out.stores = <<>>
    /\ session = pre

\* a reference is tapped after its entry expired while another is still held
C22_Witness ==
  /\ ev.kind = "alrt" /\ ev.kv
  /\ ev.redis["alert:" \o ev.text] = "null"
  /\ \E k \in AlertKeys : ev.redis[k] # "null"
  /\ out.notice = EXPIRED

\* ----- the controls of a layout
IsSpacer(ctl) == ctl.callback_data = <<"noop">>

\* the tokens of a layout row, spacers left out
Tokens(row) ==
  LET kept == SelectSeq(row, LAMBDA ctl : ~IsSpacer(ctl))
  IN [k \in 1..Len(kept) |-> kept[k].callback_data]

\* the insert and cell-edit tokens of a whole layout
GridTokens(rows) ==
  UNION { { Tokens(rows[i])[k] : k \in 1..Len(Tokens(rows[i])) } : i \in 1..Len(rows) }
    \ { <<"skip_buttons">>, <<"back_to_image_or_pos">>, <<"buttons_done">>,
         <<"ab_cancel">>, <<"ab_buttons_done">> }

\* C23: on a grid whose rows are all non-empty either generator lays out,
\* for each row r of n cells, a strip of n insert-row controls for row r and
\* a button row of 2n+1 controls, insert-column (r,0..n) alternating with
\* cell-edit (r,0..n-1), and after the last row a strip of insert-row
\* controls for row len(grid), one per cell of the last row; an empty grid
\* gives one insert control, for row 0; the rows below hold no grid control.
C23_LayoutCoordinates ==
  (layout.flow # "none" /\ \A i \in 1..Len(grid) : Len(grid[i]) > 0) =>
    LET L == layout.rows
        rows == Len(grid)
        T(name) == Ctl(layout.flow, name)
    IN IF rows = 0
       THEN /\ GridTokens(L) = { <<T("+r"), 0>> }
            /\ Len(SelectSeq(L[1], LAMBDA ctl : ctl.callback_data = <<T("+r"), 0>>)) = 1
            /\ GridTokens(SubSeq(L, 2, Len(L))) = {}
       ELSE /\ Len(L) = 2 * rows + 3
            /\ \A r \in 0..(rows - 1) :
                 LET cells == Len(grid[r + 1])
                 IN /\ Tokens(L[2 * r + 1]) = [k \in 1..cells |-> <<T("+r"), r>>]
                    /\ Len(L[2 * r + 2]) = 2 * cells + 1
                    /\ \A k \in 1..(2 * cells + 1) :
                         L[2 * r + 2][k].callback_data =
                           IF k % 2 = 1 THEN <<T("+c"), r, (k - 1) \div 2>>
                           ELSE <<T("eb"), r, k \div 2 - 1>>
            /\ Tokens(L[2 * rows + 1]) =
                 [k \in 1..Len(grid[rows]) |-> <<T("+r"), rows>>]
            /\ GridTokens(SubSeq(L, 2 * rows + 2, Len(L))) = {}

\* both generators have laid out a grid of two rows, of one and two cells
C23_Witness ==
  /\ layout.flow = "attach"
  /\ Len(grid) = 2 /\ Len(grid[1]) = 1 /\ Len(grid[2]) = 2
  /\ Len(layout.rows) = 7
  /\ layout.rows[4][3].callback_data = <<"ab_+c", 1, 1>>

\* ----- coordinates a control may name
\* a column-insert names a place of the grid: an existing row, and a column
\* at one of its cells or right after the last
HasPlace(buttons, rowIdx, colIdx) ==
  rowIdx < Len(buttons) /\ colIdx <= Len(buttons[rowIdx + 1])

\* the control named (rowIdx, colIdx) is stale on this grid
Stale(buttons, insert, rowIdx, colIdx) ==
  IF insert THEN ~HasPlace(buttons, rowIdx, colIdx)
  ELSE ~HasCell(buttons, rowIdx, colIdx)

\* C24: a cell-edit, cell-edit-begin, cell-delete or column-insert control
\* naming a place the grid does not have raises no fault and leaves the grid
\* as it is, and the value input that completes an edit begun by such a
\* control raises no fault, leaves the grid as it is and renders the grid.
C24_StaleTapHarmless ==
  \A flow \in {"compose", "attach"} :
    LET old == IF flow = "compose" THEN pre ELSE pre.attachFlow
        G   == IF flow = "compose" THEN pre.message.buttons ELSE AttachButtons(pre)
        G2  == IF flow = "compose" THEN session.message.buttons
               ELSE AttachButtons(session)
        tapped ==
          /\ ev.kind \in {Ctl(flow, "eb"), Ctl(flow, "btn_edit"),
                          Ctl(flow, "btn_del"), Ctl(flow, "+c")}
          /\ Stale(G, ev.kind = Ctl(flow, "+c"), ev.r, ev.c)
        composeInput == pre.step = "btn_value" /\ pre.editingButton # NoEdit
        attachInput ==
          /\ pre.step \notin {"write_text", "btn_text", "btn_value"}
          /\ pre.attachFlow # NoAttach
          /\ pre.attachFlow.step # "attach_idle"
          /\ pre.attachFlow.editingButton # NoEdit
          /\ pre.attachFlow.pendingButtonText # Undef
          /\ pre.attachFlow.pendingButtonAction # Undef
        completed ==
          /\ ev.kind = "text"
          /\ IF flow = "compose" THEN composeInput ELSE attachInput
          /\ Stale(G, old.editingButton.isNew, old.editingButton.row,
                   old.editingButton.col)
    IN /\ tapped => (~out.fault /\ G2 = G)
       /\ completed =>
            /\ ~out.fault
            /\ G2 = G
            /\ out.renders # <<>>
            /\ out.renders[Len(out.renders)].kb =
                 IF flow = "compose" THEN "buttonGridKeyboard"
                 ELSE "attachButtonGridKeyboard"

\* C25: the spacer token noop and a token no handler matches are answered
\* once and otherwise ignored, whatever the session holds: the session is
\* stored as it was, nothing is rendered, sent, edited or written to the
\* store, and no fault is raised.
C25_UnmatchedTokenIgnored ==
  ev.kind \in {"noop", "unknown"} =>
    /\ out.answers = 1
    /\ session = pre
    /\ out.renders = <<>>
    /\ out.sends = <<>>
    /\ out.edits = <<>>
    /\ out.stores = <<>>
    /\ ~out.fault

\* a spacer is tapped in the middle of an edit of a grid that holds buttons
C25_Witness ==
  /\ ev.kind = "noop"
  /\ pre.step = "btn_value"
  /\ Len(pre.message.buttons) = 2
  /\ out.answers = 1
  /\ session = pre

\* the update is a control token (a callback query), not a message or /start
IsToken(e) == e.kind \notin {"none", "text", "photo", "start"}

\* C26: every control token is answered exactly once while it is handled,
\* and no render, send or edit call of that handling comes before the answer.
C26_AnsweredOnceFirst ==
  IsToken(ev) => (out.answers = 1 /\ ~out.late)

\* C27: whenever a transport or store call made while an update is handled
\* rejects (a render to the user, the delivery to the target chat, the group
\* lookup, the overflow write), the handling still ends with a render to the
\* user and without a fault.
C27_FailureEndsInRender ==
  out.failed > 0 => (out.renders # <<>> /\ ~out.fault)

\* the controls that lead back, cancel the flow or try again
WayOut ==
  {"back_to_text", "back_to_image", "back_to_image_or_pos", "back_to_buttons",
   "back_to_btn_action", "back_to_review", "back_to_review_direct",
   "back_to_groups", "cancel", "refresh_groups", "ab_back_to_buttons",
   "ab_back_to_btn_action", "ab_cancel"}

\* either flow is at a step other than idle
NonIdle(s) ==
  \/ s.step # "idle"
  \/ s.attachFlow # NoAttach /\ s.attachFlow.step # "attach_idle"

\* every render of the last handling carries a control to go back, cancel
\* or try again
RendersHaveWayOut ==
  \A k \in 1..Len(out.renders) :
    KeyboardTokens(out.renders[k].kb) \cap WayOut # {}

AttachTokens ==
  {"attach_buttons_start", "ab_+r", "ab_+c", "ab_eb", "ab_btn_edit",
   "ab_btn_del", "ab_buttons_done", "ab_btnact", "ab_back_to_buttons",
   "ab_back_to_btn_action", "ab_cancel"}

\* the last update was handled by the attach flow: one of its controls, or a
\* text that the compose flow's text handler passed on
ByAttachFlow ==
  \/ ev.kind \in AttachTokens
  \/ ev.kind = "text" /\ pre.step \notin {"write_text", "btn_text", "btn_value"}

\* the flow that handled the last update is left at a step other than idle
OwnFlowNonIdle ==
  IF ByAttachFlow
  THEN session.attachFlow # NoAttach /\ session.attachFlow.step # "attach_idle"
  ELSE session.step # "idle"

RacedToEnd ==
  \A i \in Racers : race.racers[i].stage = "finished" /\ race.racers[i].seen = 0

\* the handling that finished last
Latest == race.racers[race.order[Len(race.order)]]

\* C29: when the updates of one user are handled at the same time, all
\* loading the session before any writes it back, every handling writes its
\* whole session value back and the session stored in the end is the value
\* of the handling that finished last: what the earlier ones changed is lost.
C29_LastWriteWins ==
  RacedToEnd => session = Latest.result.s

\* grid G2 is grid G1 with an empty row put in at index R: row R of G2 is
\* empty, the rows before R are kept and the rows from R on lie one further
RowInsertedAt(G1, G2, R) ==
  /\ Len(G2) = Len(G1) + 1
  /\ R < Len(G2)
  /\ G2[R + 1] = <<>>
  /\ \A i \in 1..Len(G1) : G2[IF i <= R THEN i ELSE i + 1] = G1[i]

\* C30: in either flow the row-insert control with index R gives a grid in
\* which row R is the new empty row and every row formerly at R or later
\* lies one further down, puts the edit cursor on (R, 0, isNew), the row
\* just inserted, and leaves the flow waiting for the button's label.
C30_RowInsertOpensRow ==
  /\ (ev.kind = "+r" /\ ~out.fault) =>
       /\ RowInsertedAt(pre.message.buttons, session.message.buttons, ev.r)
       /\ session.editingButton = [row |-> ev.r, col |-> 0, isNew |-> TRUE]
       /\ session.step = "btn_text"
  /\ (ev.kind = "ab_+r" /\ ~out.fault) =>
       /\ RowInsertedAt(AttachButtons(pre), session.attachFlow.buttons, ev.r)
       /\ session.attachFlow.editingButton =
            [row |-> ev.r, col |-> 0, isNew |-> TRUE]
       /\ session.attachFlow.step = "attach_edit_buttons"
       /\ session.attachFlow.pendingButtonText = Undef

\* the last update was a confirm-send whose send call to the target chat was
\* made and rejected
SendRejected ==
  /\ ev.kind = "confirm_send"
  /\ out.sends # <<>>
  /\ ~out.sends[1].ok

\* C31: when the send to the target chat fails, confirm-send leaves the step,
\* the composed message and the target chat as they were and renders the
\* failure over the review controls; a confirm-send handled next on the
\* stored session makes the same send call again.
C31_FailedSendKeepsDraft ==
  SendRejected =>
    /\ ~out.fault
    /\ session.step = pre.step
    /\ session.message = pre.message
    /\ session.targetGroupId = pre.targetGroupId
    /\ out.renders = <<[msg |-> "send_failed", kb |-> "reviewKeyboard"]>>
    /\ Handle(session, [ev EXCEPT !.api = TRUE]).sends
         = <<[out.sends[1] EXCEPT !.ok = TRUE]>>

\* a photo message with a grid was turned down by the target chat and is
\* still the draft, its target chosen
C31_Witness ==
  /\ SendRejected
  /\ out.sends[1].call = "sendPhoto"
  /\ session.step = "confirm_send"
  /\ session.targetGroupId = -1001
  /\ Len(session.message.buttons) = 2
  /\ out.failed = 1

\* C32: after every editor event handled for the compose flow and, in its
\* ab_ form, for the attach flow, both having started on an empty grid, the
\* attach grid equals the compose grid.
C32_AttachMirrorsCompose ==
  AttachButtons(twin) = session.message.buttons

\* the attach flow waits for a text: a button is being made or changed (the
\* edit cursor is set) or the link of the target message is awaited
AttachAwaitsText(s) ==
  /\ s.attachFlow # NoAttach
  /\ \/ s.attachFlow.step = "attach_awaiting_url"
     \/ /\ s.attachFlow.step = "attach_edit_buttons"
        /\ s.attachFlow.editingButton # NoEdit

\* C33: a text that arrives while the attach flow waits for one is handled
\* by the attach flow's text handler whatever the compose step is: the
\* outcome and the stored session are those of the attach handler, and the
\* compose flow's step, message and staging are as before.
C33_AttachTakesItsText ==
  (ev.kind = "text" /\ AttachAwaitsText(pre)) =>
    /\ out = Effects(attach_text(pre, ev))
    /\ session = Commit(pre, attach_text(pre, ev))
    /\ session.step = pre.step
    /\ session.message = pre.message
    /\ session.pendingButtonText = pre.pendingButtonText

\* C34: a send to a target chat is made only by a confirm-send handled
\* while the compose step is confirm_send; a confirm-send control handled at
\* any other step makes no send call and leaves the session as it was.
C34_SendOnlyWhenConfirming ==
  /\ out.sends # <<>> => (ev.kind = "confirm_send" /\ pre.step = "confirm_send")
  /\ (ev.kind = "confirm_send" /\ pre.step # "confirm_send") =>
       (out.sends = <<>> /\ session = pre)

\* C35: every send goes to the target chat that was selected after the most
\* recent create-message, cancel, /start or successful send: a target chosen
\* for an earlier message, sent or given up, is not used for a later one.
C35_SendUsesFreshTarget ==
  out.sends # <<>> =>
    (chosen.was # NoTarget /\ out.sends[1].chat = chosen.was)

\* a handling that has finished and whose send reached the target chat
Delivered(i) ==
  /\ race.racers[i].stage = "finished"
  /\ race.racers[i].result.sends # <<>>
  /\ race.racers[i].result.sends[1].ok

ConfirmedBy(i) ==
  LET me == race.racers[i]
  IN /\ me.stage = "finished"
     /\ me.update.kind = "confirm_send"
     /\ me.loaded.targetGroupId # NoTarget
     /\ ~(me.loaded.message.text = "" /\ me.loaded.message.imageFileId = Undef)

\* the place of finished handling i among the write-backs
Wrote(i) == CHOOSE k \in 1..Len(race.order) : race.order[k] = i

\* handling j read the session after handling i had written it back
ReadAfter(j, i) == Wrote(i) <= race.racers[j].seen

\* between the write-back of i and the read of j a handling that had read
\* the session before i wrote it put its own copy back over what i stored
Overwritten(i, j) ==
  \E k \in Racers \ {i, j} :
    /\ race.racers[k].stage = "finished"
    /\ ~race.racers[k].result.fault
    /\ ~ReadAfter(k, i)
    /\ Wrote(i) < Wrote(k)
    /\ ReadAfter(j, k)

TypedLabels(buttons) ==
  \A k \in 1..Len(Visited(buttons)) : Visited(buttons)[k].text \in Texts

\* C37: a button is placed in a grid only from a label and an action that
\* the user supplied before the value: when a text input changes the compose
\* grid the label and the action were staged, and no button of either grid
\* carries the default label.
C37_ButtonFromUserInput ==
  /\ (ev.kind = "text" /\ session.message.buttons # pre.message.buttons) =>
       /\ pre.pendingButtonText \in Texts
       /\ pre.pendingButtonAction \in {"url", "alert"}
  /\ TypedLabels(session.message.buttons)
  /\ TypedLabels(AttachButtons(twin))

\* C38: on a session without an attachFlow record every control token of
\* the attach flow, the action-choice tokens included, is handled without a
\* fault.
C38_AttachTokensNeedNoRecord ==
  (pre.attachFlow = NoAttach /\ ev.kind \in AttachTokens) => ~out.fault

====
